---- MODULE Spec2Model ----
(***************************************************************************)
(* A model of dealroom_firestore_connector: the history collection and the *)
(* upsert set_history_doc_refs, with the resolver get_history_doc_refs,    *)
(* the validators, the dedup adjustment and the store access layer's set.  *)
(*                                                                         *)
(* Python values are tagged records, so that an int never equals a string  *)
(* (1 /= "1", -2 /= "-2") and a missing key differs from a stored value.   *)
(***************************************************************************)
EXTENDS Integers, Sequences, FiniteSets, TLC

VARIABLES docs, pc, last, procs, access, batch, people, applied, paging,
          threads

vars == <<docs, pc, last, procs, access, batch, people, applied, paging,
          threads>>

(***************************************************************************)
(* Bounds of the model.                                                    *)
(***************************************************************************)
\* Number of document ids of the history collection.
MaxDocs == 2

DocIds == 1..MaxDocs

(***************************************************************************)
(* Python values.                                                          *)
(***************************************************************************)
\* A key that is not in a dict (dict.get gives None for it).
Absent == [k |-> "absent", i |-> 0, s |-> "", l |-> {}]

NoneV == [k |-> "none", i |-> 0, s |-> "", l |-> {}]

IntV(n) == [k |-> "int", i |-> n, s |-> "", l |-> {}]

StrV(x) == [k |-> "str", i |-> 0, s |-> x, l |-> {}]

ListV(xs) == [k |-> "list", i |-> 0, s |-> "", l |-> xs]

\* bool(v): None, 0, "" and [] are falsy.
Truthy(v) ==
    CASE v.k = "int" -> v.i # 0
      [] v.k = "str" -> v.s # ""
      [] v.k = "list" -> v.l # {}
      [] OTHER -> FALSE

\* payload.get(key): the value, or None when the key is missing.
DictGet(d, key) == IF d[key].k = "absent" THEN NoneV ELSE d[key]

\* a or b
PyOr(a, b) == IF Truthy(a) THEN a ELSE b

(***************************************************************************)
(* Strings of the model: decimal strings with their int() value, UUID      *)
(* strings, and url strings with the form the normalizer gives them.       *)
(***************************************************************************)
\* str.isnumeric() holds for these (digits only, no sign).
NumericStrings == {"0", "1", "2"}

\* int(s) parses these.
IntStrings == NumericStrings \cup {"-1", "-2", "-3"}

PyIntOfStr(s) ==
    CASE s = "0" -> 0
      [] s = "1" -> 1
      [] s = "2" -> 2
      [] s = "-1" -> -1
      [] s = "-2" -> -2
      [] s = "-3" -> -3

\* Strings uuid.UUID(hex=s, version=4) parses.
UUIDStrings == {"u1", "u2"}

\* Strings the url normalizer accepts.
UrlStrings == {"a.com", "www.a.com"}

\* int(v) had the conversion been left out.
PyIntSkipped(v) == v

\* int(v) for the values that reach line 665 (validated ids).
PyInt(v) == IF v.k = "str" THEN IntV(PyIntOfStr(v.s)) ELSE v

\* DealroomEntity
DELETED == -2

NOT_IN_DB == -1

\* StatusCode
ERROR == "ERROR"

SUCCESS == "SUCCESS"

CREATED == "CREATED"

UPDATED == "UPDATED"

\* An exception that leaves the called function (not a status code).
RAISED == "RAISED"

\* dealroom_urlextract.extract: the canonical form of a url, or
\* InvalidURLFormat (ok = FALSE) for anything that is not url-shaped.
extract(v) ==
    IF v.k = "str" /\ v.s \in UrlStrings
    THEN [ok |-> TRUE, v |-> StrV(IF v.s = "www.a.com" THEN "a.com" ELSE v.s)]
    ELSE [ok |-> FALSE, v |-> NoneV]

is_valid_uuid(value) == value.k = "str" /\ value.s \in UUIDStrings

\* is_valid_id had it compared with >= 0.
is_valid_id_or_zero(value) ==
    CASE value.k = "str" -> value.s \in NumericStrings
      [] value.k = "int" -> value.i >= 0
      [] OTHER -> FALSE

is_valid_id(value) ==
    CASE value.k = "str" ->
           /\ value.s # ""
           /\ value.s \in NumericStrings
           /\ PyIntOfStr(value.s) > 0
      [] value.k = "int" -> value.i # 0 /\ value.i > 0
      [] OTHER -> FALSE

_FIELD_NAME_UUID == "dealroom_uuid"

_FIELD_NAME_ID == "dealroom_id"

\* DealroomIdentifier(value): the field name follows the value's type.
DealroomIdentifier(value) ==
    [tag |-> "ident",
     value |-> value,
     field_name |-> IF value.k = "int" THEN _FIELD_NAME_ID ELSE _FIELD_NAME_UUID,
     field_name_old |-> IF value.k = "int" THEN "dealroom_id_old"
                                           ELSE "dealroom_uuid_old"]

NoIdentifier == [tag |-> "none", value |-> NoneV, field_name |-> "",
                 field_name_old |-> ""]

InvalidIdentifier == [tag |-> "invalid", value |-> NoneV, field_name |-> "",
                      field_name_old |-> ""]

determine_identifier(identifier) ==
    IF ~Truthy(identifier) THEN NoIdentifier
    ELSE IF is_valid_id(identifier) THEN DealroomIdentifier(PyInt(identifier))
    ELSE IF is_valid_uuid(identifier) THEN DealroomIdentifier(identifier)
    ELSE InvalidIdentifier

(***************************************************************************)
(* Documents of the history collection and caller payloads: one value per  *)
(* field, Absent for a key the dict does not hold.                         *)
(***************************************************************************)
Fields == {"final_url", "current_related_urls", "dealroom_id",
           "dealroom_id_old", "dealroom_uuid", "dealroom_uuid_old",
           "last_edit"}

\* The dict {}; as a document, one that does not exist (to_dict() is None).
EmptyDoc == [f \in Fields |-> Absent]

Exists(d, ref) == d[ref] # EmptyDoc

\* {**a, **b}: keys of b win.
DictMerge(a, b) == [f \in Fields |-> IF b[f].k # "absent" THEN b[f] ELSE a[f]]

\* The timestamp datetime.now(timezone.utc) as stored.
Now == StrV("now")

RECURSIVE SortedSeq(_)
\* The ids of a set in ascending order: the order a query streams documents in.
SortedSeq(S) ==
    IF S = {} THEN <<>>
    ELSE LET m == CHOOSE x \in S : \A y \in S : x <= y
         IN <<m>> \o SortedSeq(S \ {m})

(***************************************************************************)
(* Store failures of one call.  c1, c2: the first and the second attempt   *)
(* of a stream() call raise; it: the query fails while its results are     *)
(* consumed; get: DocumentReference.get raises; s1, u1, s2, u2: the first  *)
(* and second attempt of DocumentReference.set and of the last_edit update *)
(* raise.                                                                  *)
(***************************************************************************)
Fault(c1, c2, it, get, s1, u1, s2, u2) ==
    [c1 |-> c1, c2 |-> c2, it |-> it, get |-> get,
     s1 |-> s1, u1 |-> u1, s2 |-> s2, u2 |-> u2]

NoFault == Fault(FALSE, FALSE, FALSE, FALSE, FALSE, FALSE, FALSE, FALSE)

\* stream: one retry of collection_ref.stream(); ERROR when both raise.
stream(f) == IF ~f.c1 THEN "generator" ELSE IF ~f.c2 THEN "generator" ELSE ERROR

\* where(...) had it compared with == whatever op_string is.
QueryMatchesEquality(d, field_path, op_string, value) ==
    {ref \in DOMAIN d :
        Exists(d, ref) /\ d[ref][field_path] = value}

\* The documents a where(field_path, op_string, value) query selects.
QueryMatches(d, field_path, op_string, value) ==
    {ref \in DOMAIN d :
        /\ Exists(d, ref)
        /\ IF op_string = "array_contains"
           THEN d[ref][field_path].k = "list" /\ value.s \in d[ref][field_path].l
           ELSE d[ref][field_path].k # "absent" /\ d[ref][field_path] = value}

\* _filtered_stream_refs: the references in stream order; "fce" when stream
\* gave ERROR (FirestoreConnectorError), "exc" when consuming the results
\* raised.
_filtered_stream_refs(d, field_path, op_string, value, f) ==
    IF stream(f) = ERROR THEN [status |-> "fce", refs |-> <<>>]
    ELSE IF f.it THEN [status |-> "exc", refs |-> <<>>]
    ELSE [status |-> "ok",
          refs |-> SortedSeq(QueryMatches(d, field_path, op_string, value))]

Keys == {"dealroom_id", "dealroom_id_old", "dealroom_uuid",
         "dealroom_uuid_old", "final_url", "current_related_urls"}

NoRefs == [key \in Keys |-> <<>>]

\* get_history_doc_refs: status "ok" with the keys queried and their lists,
\* ERROR (returned or from exc_handler), or RAISED (an exception exc_handler
\* does not catch).
get_history_doc_refs(d, final_url, dealroom_id, f) ==
    IF ~Truthy(final_url) /\ ~Truthy(dealroom_id)
    THEN [status |-> ERROR, keys |-> {}, refs |-> NoRefs]
    ELSE
    LET dr == determine_identifier(dealroom_id)
        dr_id == IF dr.tag = "invalid" THEN NoIdentifier ELSE dr
        by_id == _filtered_stream_refs(d, dr_id.field_name, "==", dr_id.value, f)
        by_old == _filtered_stream_refs(d, dr_id.field_name_old, "==",
                                        dr_id.value, f)
        website_url == extract(final_url)
        by_url == _filtered_stream_refs(d, "final_url", "==", website_url.v, f)
        by_rel == _filtered_stream_refs(d, "current_related_urls",
                                        "array_contains", website_url.v, f)
        id_keys == IF dr_id.tag = "ident"
                   THEN {dr_id.field_name, dr_id.field_name_old} ELSE {}
        url_keys == IF Truthy(final_url)
                    THEN {"final_url", "current_related_urls"} ELSE {}
    IN  IF dr_id.tag = "ident" /\ by_id.status # "ok"
        THEN [status |-> IF by_id.status = "fce" THEN ERROR ELSE RAISED,
              keys |-> {}, refs |-> NoRefs]
        ELSE IF Truthy(final_url) /\ ~website_url.ok
        THEN [status |-> ERROR, keys |-> {}, refs |-> NoRefs]
        ELSE IF Truthy(final_url) /\ by_url.status # "ok"
        THEN [status |-> IF by_url.status = "fce" THEN ERROR ELSE RAISED,
              keys |-> {}, refs |-> NoRefs]
        ELSE [status |-> "ok",
              keys |-> id_keys \cup url_keys,
              refs |-> [key \in Keys |->
                          IF key \in id_keys
                          THEN (IF key = dr_id.field_name THEN by_id.refs
                                                          ELSE by_old.refs)
                          ELSE IF key \in url_keys
                          THEN (IF key = "final_url" THEN by_url.refs
                                                     ELSE by_rel.refs)
                          ELSE <<>>]]

(***************************************************************************)
(* Validators: TRUE when the Python function returns, FALSE when it raises *)
(* ValueError or KeyError.                                                 *)
(***************************************************************************)
Allowed == {IntV(-1), IntV(-2), StrV("-1"), StrV("-2")}

_validate_dealroom_id(dealroom_id) ==
    ~(~is_valid_id(dealroom_id) /\ dealroom_id \notin Allowed)

_validate_dealroom_uuid(dealroom_uuid) ==
    ~(~is_valid_uuid(dealroom_uuid) /\ dealroom_uuid \notin Allowed)

_validate_final_url_unchecked(final_url) == TRUE

_validate_final_url(final_url) ==
    IF final_url = StrV("") THEN TRUE ELSE extract(final_url).ok

\* payload.get(key, NOT_IN_DB) == DealroomEntity.NOT_IN_DB
IsNotInDbOrMissing(payload, key) ==
    IF payload[key].k = "absent" THEN TRUE ELSE payload[key] = IntV(NOT_IN_DB)

_validate_new_without_final_url(payload) ==
    /\ ~(payload["dealroom_id"].k = "absent" /\ payload["dealroom_uuid"].k = "absent")
    /\ (payload["dealroom_id"].k # "absent"
            => _validate_dealroom_id(payload["dealroom_id"]))
    /\ (payload["dealroom_uuid"].k # "absent"
            => _validate_dealroom_uuid(payload["dealroom_uuid"]))

_validate_new_history_doc_payload(payload) ==
    /\ payload["final_url"].k # "absent"
    /\ _validate_final_url(payload["final_url"])
    /\ ~(payload["dealroom_id"].k = "absent" /\ payload["dealroom_uuid"].k = "absent")
    /\ (payload["dealroom_id"].k # "absent"
            => _validate_dealroom_id(payload["dealroom_id"]))
    /\ (payload["dealroom_uuid"].k # "absent"
            => _validate_dealroom_uuid(payload["dealroom_uuid"]))
    /\ ~( /\ ~Truthy(DictGet(payload, "final_url"))
          /\ IsNotInDbOrMissing(payload, "dealroom_id")
          /\ IsNotInDbOrMissing(payload, "dealroom_uuid"))

_validate_update_without_uuid(payload) ==
    /\ (payload["final_url"].k # "absent"
            => _validate_final_url(payload["final_url"]))
    /\ (payload["dealroom_id"].k # "absent"
            => _validate_dealroom_id(payload["dealroom_id"]))

_validate_update_history_doc_payload(payload) ==
    /\ (payload["final_url"].k # "absent"
            => _validate_final_url(payload["final_url"]))
    /\ (payload["dealroom_id"].k # "absent"
            => _validate_dealroom_id(payload["dealroom_id"]))
    /\ (payload["dealroom_uuid"].k # "absent"
            => _validate_dealroom_uuid(payload["dealroom_uuid"]))


(***************************************************************************)
(* Store access layer: set on a document of the history collection.        *)
(***************************************************************************)
HISTORY_COLLECTION_PATH == "history"

\* doc_ref.path.split("/") of a document of the history collection.
PathOf(ref) == <<HISTORY_COLLECTION_PATH, ref>>

DocSetReplace(doc, payload) == payload

\* DocumentReference.set(payload, merge=True) on the stored document.
DocSetMerge(doc, payload) == DictMerge(doc, payload)

\* _update_last_edit: the document after the last_edit update, which is
\* issued only for a path of two segments under "history".
_update_last_edit(doc, path) ==
    IF Len(path) = 2 /\ path[1] = "history"
    THEN [doc EXCEPT !["last_edit"] = Now]
    ELSE doc

IssuesLastEditAnyDepth(path) == Len(path) >= 2 /\ path[1] = "history"

\* Whether _update_last_edit issues a store call that can fail.
IssuesLastEdit(path) == Len(path) = 2 /\ path[1] = "history"

\* set: the primary write then the last_edit update, retried once as a whole
\* when either raised; SUCCESS, or ERROR (from exc_handler) when the retry
\* raised too.  The stored document keeps every write that succeeded.
set(doc, path, payload, f) ==
    LET ok1 == ~f.s1 /\ ~(IssuesLastEdit(path) /\ f.u1)
        after_set1 == IF f.s1 THEN doc ELSE DocSetMerge(doc, payload)
        ok2 == ~f.s2 /\ ~(IssuesLastEdit(path) /\ f.u2)
        after_set2 == IF f.s2 THEN after_set1 ELSE DocSetMerge(after_set1, payload)
    IN  IF ok1 THEN [status |-> SUCCESS, doc |-> _update_last_edit(after_set1, path)]
        ELSE IF ok2
        THEN [status |-> SUCCESS, doc |-> _update_last_edit(after_set2, path)]
        ELSE [status |-> ERROR, doc |-> after_set2]

\* update: as set, with DocumentReference.update as the primary write, which
\* raises for a document that does not exist.
update(doc, path, payload, f) ==
    LET missing == doc = EmptyDoc
        fail1 == f.s1 \/ missing
        fail2 == f.s2 \/ missing
        ok1 == ~fail1 /\ ~(IssuesLastEdit(path) /\ f.u1)
        after1 == IF fail1 THEN doc ELSE DictMerge(doc, payload)
        ok2 == ~fail2 /\ ~(IssuesLastEdit(path) /\ f.u2)
        after2 == IF fail2 THEN after1 ELSE DictMerge(after1, payload)
    IN  IF ok1 THEN [status |-> SUCCESS, doc |-> _update_last_edit(after1, path)]
        ELSE IF ok2
        THEN [status |-> SUCCESS, doc |-> _update_last_edit(after2, path)]
        ELSE [status |-> ERROR, doc |-> after2]

\* get: one retry of doc_ref.get(); the snapshot, or ERROR when both raise.
get(f) == IF ~f.c1 THEN "snapshot" ELSE IF ~f.c2 THEN "snapshot" ELSE ERROR

\* Time to sleep before the retry.
EXCEPTION_SLEEP_TIME == 5

(***************************************************************************)
(* The store operations one call of the access layer issues, in order:     *)
(* op is the operation ("sleep" for sleep(n)), ok whether it returned      *)
(* without raising.  "consume" is the caller iterating what stream gave.   *)
(***************************************************************************)
Event(op, ok) == [op |-> op, ok |-> ok, n |-> 0]

SleepEvent == [op |-> "sleep", ok |-> TRUE, n |-> EXCEPTION_SLEEP_TIME]

\* One try block of set or update: the primary write, then _update_last_edit
\* when the write returned.
WriteAttempt(op, path, fail_write, fail_edit) ==
    IF fail_write THEN <<Event(op, FALSE)>>
    ELSE IF IssuesLastEdit(path)
    THEN <<Event(op, TRUE), Event("last_edit", ~fail_edit)>>
    ELSE <<Event(op, TRUE)>>

AttemptOk(events) == \A n \in 1..Len(events) : events[n].ok

\* try / except: sleep, retry.
Retried(first, second) ==
    IF AttemptOk(first) THEN first ELSE first \o <<SleepEvent>> \o second

SetEvents(path, f) ==
    Retried(WriteAttempt("set", path, f.s1, f.u1),
            WriteAttempt("set", path, f.s2, f.u2))

UpdateEvents(doc, path, f) ==
    Retried(WriteAttempt("update", path, f.s1 \/ doc = EmptyDoc, f.u1),
            WriteAttempt("update", path, f.s2 \/ doc = EmptyDoc, f.u2))

GetEvents(f) == Retried(<<Event("get", ~f.c1)>>, <<Event("get", ~f.c2)>>)

\* stream returns the generator of the attempt that did not raise; the
\* caller then consumes it, outside stream and its exception handling.
StreamEvents(f) ==
    LET calls == Retried(<<Event("stream", ~f.c1)>>, <<Event("stream", ~f.c2)>>)
    IN  IF stream(f) = ERROR THEN calls
        ELSE calls \o <<Event("consume", ~f.it)>>

\* One call of get, set, update or stream on the document at path: its
\* return value, the document afterwards and the operations issued.
AccessCall(fn, path, doc, payload, f) ==
    LET written == IF fn = "set" THEN set(doc, path, payload, f)
                   ELSE update(doc, path, payload, f)
    IN  [fn |-> fn, path |-> path, fault |-> f, before |-> doc,
         after |-> IF fn \in {"set", "update"} THEN written.doc ELSE doc,
         events |-> CASE fn = "set" -> SetEvents(path, f)
                      [] fn = "update" -> UpdateEvents(doc, path, f)
                      [] fn = "get" -> GetEvents(f)
                      [] OTHER -> StreamEvents(f),
         result |-> CASE fn \in {"set", "update"} -> written.status
                      [] fn = "get" -> get(f)
                      [] OTHER -> stream(f)]


(***************************************************************************)
(* The upsert decision engine.                                             *)
(***************************************************************************)
\* The plain int -1 that stands for "no identifier" (not a DealroomIdentifier).
PlainNotInDb == [tag |-> "int", value |-> IntV(NOT_IN_DB), field_name |-> "",
                 field_name_old |-> ""]

\* _get_final_url_and_dealroom_id had it preferred the payload's final_url
\* to a raw identifier that does not parse.
_get_final_url_payload_first(payload, finalurl_or_dealroomid) ==
    LET dr_id == determine_identifier(finalurl_or_dealroomid)
    IN  [final_url |-> PyOr(DictGet(payload, "final_url"),
                            PyOr(finalurl_or_dealroomid, StrV(""))),
         dealroom_id |-> IF dr_id.tag = "ident" THEN dr_id ELSE PlainNotInDb]

_get_final_url_and_dealroom_id(payload, finalurl_or_dealroomid) ==
    LET dr_id == determine_identifier(finalurl_or_dealroomid)
    IN  IF ~Truthy(finalurl_or_dealroomid)
        THEN [final_url |-> PyOr(DictGet(payload, "final_url"), StrV("")),
              dealroom_id |-> PlainNotInDb]
        ELSE IF dr_id.tag = "invalid"
        THEN [final_url |-> PyOr(finalurl_or_dealroomid, StrV("")),
              dealroom_id |-> PlainNotInDb]
        ELSE [final_url |-> PyOr(DictGet(payload, "final_url"), StrV("")),
              dealroom_id |-> IF dr_id.tag = "ident" THEN dr_id ELSE PlainNotInDb]

check_for_deleted_none(d, doc_refs, identifier, count_history_refs) ==
    count_history_refs

check_for_deleted_every(d, doc_refs, identifier, count_history_refs) ==
    count_history_refs - Len(doc_refs)

RECURSIVE check_for_deleted_profiles(_, _, _, _)
\* One decrement for each fetched document that is deleted and whose _old
\* field is not the identifier.
check_for_deleted_profiles(d, doc_refs, identifier, count_history_refs) ==
    IF doc_refs = <<>> THEN count_history_refs
    ELSE LET doc == d[Head(doc_refs)]
             is_a_deleted_entity ==
                 DictGet(doc, identifier.field_name) = IntV(DELETED)
             dealroom_id_was_already_used ==
                 DictGet(doc, identifier.field_name_old) = identifier.value
         IN  check_for_deleted_profiles(d, Tail(doc_refs), identifier,
                 IF doc # EmptyDoc /\ is_a_deleted_entity
                      /\ ~dealroom_id_was_already_used
                 THEN count_history_refs - 1 ELSE count_history_refs)

check_for_in_progress_none(d, doc_refs, identifier, count_history_refs) ==
    count_history_refs

RECURSIVE check_for_in_progress_profiles(_, _, _, _)
\* One decrement for each fetched document whose primary field is not -1.
check_for_in_progress_profiles(d, doc_refs, identifier, count_history_refs) ==
    IF doc_refs = <<>> THEN count_history_refs
    ELSE LET doc == d[Head(doc_refs)]
             is_an_in_progress_entity ==
                 DictGet(doc, identifier.field_name) = IntV(NOT_IN_DB)
         IN  check_for_in_progress_profiles(d, Tail(doc_refs), identifier,
                 IF doc # EmptyDoc /\ ~is_an_in_progress_entity
                 THEN count_history_refs - 1 ELSE count_history_refs)

\* The if/elif chain had the url keys come before the _old keys.
KeyOrderOldLast == <<"dealroom_id", "dealroom_uuid", "final_url",
                     "current_related_urls", "dealroom_id_old",
                     "dealroom_uuid_old">>

KeyOrderUrlFirst == <<"final_url", "current_related_urls", "dealroom_id",
                      "dealroom_id_old", "dealroom_uuid", "dealroom_uuid_old">>

\* The order of the if/elif chain that picks key_found.
KeyOrder == <<"dealroom_id", "dealroom_id_old", "dealroom_uuid",
              "dealroom_uuid_old", "final_url", "current_related_urls">>

RECURSIVE FirstKey(_, _)
\* The first key of `order` that is in history_refs with a non-empty list;
\* "" (None) when there is none.
FirstKey(history_refs, order) ==
    IF order = <<>> THEN ""
    ELSE IF Head(order) \in history_refs.keys
              /\ Len(history_refs.refs[Head(order)]) > 0
    THEN Head(order)
    ELSE FirstKey(history_refs, Tail(order))

key_found(history_refs) == FirstKey(history_refs, KeyOrder)

\* count_history_refs before the dedup adjustment.
InitialCount(history_refs) ==
    IF key_found(history_refs) = "" THEN 0
    ELSE Len(history_refs.refs[key_found(history_refs)])

\* Lines 609-616: the adjustment runs for key final_url and a DealroomIdentifier.
RunsDedup(history_refs, dealroom_id) ==
    key_found(history_refs) = "final_url" /\ dealroom_id.tag = "ident"

AdjustedCountNoDedup(d, history_refs, dealroom_id) == InitialCount(history_refs)

AdjustedCount(d, history_refs, dealroom_id) ==
    IF RunsDedup(history_refs, dealroom_id)
    THEN check_for_in_progress_profiles(d, history_refs.refs["final_url"],
             dealroom_id,
             check_for_deleted_profiles(d, history_refs.refs["final_url"],
                 dealroom_id, InitialCount(history_refs)))
    ELSE InitialCount(history_refs)

CreatePayloadDefaultsWin(payload, dealroom_id, finalurl_or_dealroomid) ==
    IF dealroom_id.tag = "ident"
    THEN DictMerge(payload,
                   [EmptyDoc EXCEPT ![dealroom_id.field_name] = dealroom_id.value,
                                    !["final_url"] = StrV("")])
    ELSE DictMerge(payload,
                   [EmptyDoc EXCEPT !["dealroom_id"] = IntV(NOT_IN_DB),
                                    !["dealroom_uuid"] = IntV(NOT_IN_DB),
                                    !["final_url"] = finalurl_or_dealroomid])

\* Lines 620-633: the payload of a new document.
CreatePayload(payload, dealroom_id, finalurl_or_dealroomid) ==
    IF dealroom_id.tag = "ident"
    THEN DictMerge([EmptyDoc EXCEPT ![dealroom_id.field_name] = dealroom_id.value,
                                    !["final_url"] = StrV("")],
                   payload)
    ELSE DictMerge([EmptyDoc EXCEPT !["dealroom_id"] = IntV(NOT_IN_DB),
                                    !["dealroom_uuid"] = IntV(NOT_IN_DB),
                                    !["final_url"] = finalurl_or_dealroomid],
                   payload)

CoerceIdSkipped(payload) == payload

\* Lines 664-665: dealroom_id is written as an int.
CoerceId(payload) ==
    IF payload["dealroom_id"].k # "absent"
    THEN [payload EXCEPT !["dealroom_id"] = PyInt(payload["dealroom_id"])]
    ELSE payload

\* The document the UPDATE branch writes to.
UpdateTarget(history_refs) == history_refs.refs[key_found(history_refs)][1]

\* The new collection after set() on document ref.
WriteDoc(d, ref, payload, f) ==
    LET w == set(d[ref], PathOf(ref), payload, f)
    IN  [status |-> w.status, docs |-> [d EXCEPT ![ref] = w.doc]]

BranchAnyPositive(count_history_refs) ==
    IF count_history_refs <= 0 THEN "create" ELSE "update"

\* Lines 619, 646, 657: the branch the adjusted count selects.
Branch(count_history_refs) ==
    IF count_history_refs <= 0 THEN "create"
    ELSE IF count_history_refs = 1 THEN "update"
    ELSE "ambiguous"

ResultCodeUnchecked(res, operation_status_code) == operation_status_code

\* Lines 667-676: ERROR when set returned ERROR, else the branch's code.
ResultCode(res, operation_status_code) ==
    IF res = ERROR THEN ERROR ELSE operation_status_code

\* What one call did.  op: the branch that wrote ("create", "update"), or
\* "invalid", "ambiguous", "none" when nothing was written; res: what set
\* returned ("" when set was not called); written: the payload handed to set.
Outcome(result, d, target, op, history_refs, count, res, written) ==
    [result |-> result, docs |-> d, target |-> target, op |-> op,
     status |-> history_refs.status, keys |-> history_refs.keys,
     refs |-> history_refs.refs, key_found |-> key_found(history_refs),
     count0 |-> InitialCount(history_refs), count |-> count,
     res |-> res, written |-> written]

\* set_history_doc_refs on collection d; new_ref is the reference that
\* history_col.document() allocates.  result is a StatusCode or RAISED.
set_history_doc_refs(d, payload, finalurl_or_dealroomid, f, new_ref) ==
    LET fd == _get_final_url_and_dealroom_id(payload, finalurl_or_dealroomid)
        final_url == fd.final_url
        dealroom_id == fd.dealroom_id
        history_refs == get_history_doc_refs(d, final_url, dealroom_id.value, f)
        count == AdjustedCount(d, history_refs, dealroom_id)
        new_payload == CreatePayload(payload, dealroom_id, finalurl_or_dealroomid)
        created == WriteDoc(d, new_ref, CoerceId(new_payload), f)
        target == UpdateTarget(history_refs)
        updated == WriteDoc(d, target, CoerceId(payload), f)
        none == [status |-> history_refs.status, keys |-> {}, refs |-> NoRefs]
    IN  IF history_refs.status # "ok"
        THEN Outcome(history_refs.status, d, 0, "none", none, 0, "", payload)
        ELSE IF RunsDedup(history_refs, dealroom_id) /\ f.get
        THEN Outcome(RAISED, d, 0, "none", history_refs,
                     InitialCount(history_refs), "", payload)
        ELSE IF Branch(count) = "create"
        THEN IF ~_validate_new_history_doc_payload(new_payload)
             THEN Outcome(ERROR, d, 0, "invalid", history_refs, count, "",
                          new_payload)
             ELSE Outcome(ResultCode(created.status, CREATED), created.docs,
                          new_ref, "create", history_refs, count,
                          created.status, CoerceId(new_payload))
        ELSE IF Branch(count) = "update"
        THEN IF ~_validate_update_history_doc_payload(payload)
             THEN Outcome(ERROR, d, 0, "invalid", history_refs, count, "",
                          payload)
             ELSE Outcome(ResultCode(updated.status, UPDATED), updated.docs,
                          target, "update", history_refs, count,
                          updated.status, CoerceId(payload))
        ELSE Outcome(ERROR, d, 0, "ambiguous", history_refs, count, "", payload)

(***************************************************************************)
(* Inputs of the calls.                                                    *)
(***************************************************************************)
Payload(final_url, dealroom_id, dealroom_uuid) ==
    [EmptyDoc EXCEPT !["final_url"] = final_url,
                     !["dealroom_id"] = dealroom_id,
                     !["dealroom_uuid"] = dealroom_uuid]

\* Payloads of final_url and dealroom_id: valid, invalid and sentinel values.
Payloads ==
    {Payload(u, i, Absent) :
        u \in {Absent, StrV("a.com"), StrV("bad")},
        i \in {Absent, IntV(1), StrV("2"), IntV(-1), IntV(-2), IntV(0)}}

\* finalurl_or_dealroomid: None, ids as int and as string, a url.
Raws == {NoneV, IntV(1), StrV("2"), StrV("a.com")}

\* Store failures: none, and the final write failing in both attempts.
Faults == {NoFault,
           Fault(FALSE, FALSE, FALSE, FALSE, TRUE, FALSE, TRUE, FALSE)}

(***************************************************************************)
(* The sequential caller: one call at a time; the record of the call that  *)
(* returned is kept until the caller goes on.                              *)
(***************************************************************************)
NoCall == [called |-> FALSE]

\* No call of the store access layer has returned yet.
NoAccess == [fn |-> "", path |-> <<>>, fault |-> NoFault, before |-> EmptyDoc,
             after |-> EmptyDoc, events |-> <<>>, result |-> ""]

\* No function has been applied to an argument yet.
NoApplied == [fn |-> "", payload |-> EmptyDoc, final_url |-> NoneV,
              value |-> NoneV, result |-> "",
              pre |-> [ref \in DocIds |-> EmptyDoc]]

\* get_all has not been called: no query, no page fetched.
\* all: the documents of base_query in query order; fail_at: the stream
\* call that returns ERROR (0: none); res, start_at: the arguments of the
\* pending _get_all; pages: the pages fetched, each with its cursor.
NoPaging == [pc |-> "idle", all |-> <<>>, page_size |-> 1, fail_at |-> 0,
             res |-> <<>>, start_at |-> 0, pages |-> <<>>,
             result |-> "", returned |-> <<>>]

\* The threads that share one Batcher.
Threads == {1, 2}

\* A Batcher shared by threads that have not called it yet: the counter
\* __total_writes, the writes queued on the WriteBatch, and per thread its
\* position in _count_write and the counter value it has read.
NoThreads == [total_writes |-> 0, queued |-> 0,
              th |-> [t \in Threads |-> [pc |-> "idle", read |-> 0]]]

\* Batcher.__init__: an empty batch whose counter is 0.  queued: the writes
\* handed to the underlying WriteBatch; result: how the last call ended.
NewBatcher ==
    [total_writes |-> 0, queued |-> 0, result |-> "",
     op |-> "", path |-> <<>>, kwargs |-> {}, prev |-> 0, prev_queued |-> 0,
     write |-> [op |-> "", path |-> <<>>, kwargs |-> {}],
     attempts |-> <<>>, reused |-> FALSE, refused |-> FALSE]

\* The people collection, empty, and no call of set_people_doc_ref.
NoPeopleCall ==
    [called |-> FALSE, field_name |-> "", operator |-> "",
     field_value |-> NoneV, payload |-> EmptyDoc, fault |-> NoFault,
     pre |-> [ref \in DocIds |-> EmptyDoc],
     out |-> [result |-> "", op |-> "", matching_docs |-> 0, target |-> 0]]

NoPeople == [docs |-> [ref \in DocIds |-> EmptyDoc], call |-> NoPeopleCall]

\* Two callers that run set_history_doc_refs concurrently.
Procs == {"p1", "p2"}

NoRefsFound == [status |-> "ok", keys |-> {}, refs |-> NoRefs]

IdleProc == [pc |-> "start", payload |-> EmptyDoc, raw |-> NoneV,
             history_refs |-> NoRefsFound, count |-> 0, op |-> "",
             target |-> 0, result |-> ""]

NoProcs == [p \in Procs |-> IdleProc]

Init ==
    /\ docs = [ref \in DocIds |-> EmptyDoc]
    /\ pc = "idle"
    /\ last = NoCall
    /\ procs = NoProcs
    /\ access = NoAccess
    /\ batch = NewBatcher
    /\ people = NoPeople
    /\ applied = NoApplied
    /\ paging = NoPaging
    /\ threads = NoThreads

CallRecord(payload, raw, f, pre, out, repeat, first) ==
    [called |-> TRUE, payload |-> payload, raw |-> raw, fault |-> f,
     pre |-> pre, out |-> out, repeat |-> repeat, first |-> first]

NoFirst == [result |-> "", target |-> 0, op |-> ""]

NewRefsAny(d) == DocIds

\* history_col.document(): a reference no document of the collection has.
NewRefs(d) == {ref \in DocIds : ~Exists(d, ref)}

\* One whole call of set_history_doc_refs by the caller.
DoCall(payload, raw, f, repeat, first) ==
    \E new_ref \in DocIds :
        LET out == set_history_doc_refs(docs, payload, raw, f, new_ref)
        IN  /\ IF out.op = "create" THEN new_ref \in NewRefs(docs) ELSE new_ref = 1
            /\ docs' = out.docs
            /\ last' = CallRecord(payload, raw, f, docs, out, repeat, first)
            /\ pc' = "returned"
            /\ UNCHANGED <<procs, access, batch, people, applied, paging, threads>>

Call(P, R, F) ==
    /\ pc = "idle"
    /\ \E payload \in P, raw \in R, f \in F :
           DoCall(payload, raw, f, FALSE, NoFirst)

\* The caller issues the call that just returned once more, unchanged.
Repeat ==
    /\ pc = "returned"
    /\ ~last.repeat
    /\ DoCall(last.payload, last.raw, NoFault, TRUE,
              [result |-> last.out.result, target |-> last.out.target,
               op |-> last.out.op])

\* The caller drops the result and goes on to its next call.
Forget ==
    /\ pc = "returned"
    /\ pc' = "idle"
    /\ last' = NoCall
    /\ UNCHANGED <<docs, procs, access, batch, people, applied, paging, threads>>

Next ==
    \/ Call(Payloads, Raws, Faults)
    \/ Forget

Spec == Init /\ [][Next]_vars


(***************************************************************************)
(* Concurrent callers.  Each runs one call of set_history_doc_refs in the  *)
(* steps at which it talks to the store: the resolver's queries, the       *)
(* fetches of the dedup adjustment, the primary write and the last_edit    *)
(* update.  Nothing orders the steps of different callers.                 *)
(***************************************************************************)
ConcPayloads == {Payload(StrV("a.com"), Absent, Absent),
                 Payload(StrV("a.com"), IntV(1), Absent),
                 Payload(Absent, Absent, Absent)}

ConcRaws == {NoneV, IntV(1)}

IdentifierOf(pr) == _get_final_url_and_dealroom_id(pr.payload, pr.raw).dealroom_id

FinalUrlOf(pr) == _get_final_url_and_dealroom_id(pr.payload, pr.raw).final_url

\* The caller enters set_history_doc_refs with its arguments.
PBegin(p) ==
    /\ procs[p].pc = "start"
    /\ \E payload \in ConcPayloads, raw \in ConcRaws :
           procs' = [procs EXCEPT ![p] = [@ EXCEPT !.pc = "resolve",
                                                   !.payload = payload,
                                                   !.raw = raw]]
    /\ UNCHANGED <<docs, pc, last, access, batch, people, applied, paging, threads>>

\* Line 571: the resolver's queries.
PResolve(p) ==
    /\ procs[p].pc = "resolve"
    /\ LET history_refs == get_history_doc_refs(docs, FinalUrlOf(procs[p]),
                               IdentifierOf(procs[p]).value, NoFault)
       IN  procs' = [procs EXCEPT ![p] =
               IF history_refs.status # "ok"
               THEN [@ EXCEPT !.pc = "done", !.result = ERROR, !.op = "none"]
               ELSE [@ EXCEPT !.pc = "dedup", !.history_refs = history_refs]]
    /\ UNCHANGED <<docs, pc, last, access, batch, people, applied, paging, threads>>

\* Lines 609-616: the adjustment reads the candidates as they are now.
PDedup(p) ==
    /\ procs[p].pc = "dedup"
    /\ procs' = [procs EXCEPT ![p] =
           [@ EXCEPT !.pc = "write",
                     !.count = AdjustedCount(docs, procs[p].history_refs,
                                             IdentifierOf(procs[p]))]]
    /\ UNCHANGED <<docs, pc, last, access, batch, people, applied, paging, threads>>

\* Lines 618-667: validation and the primary write of set.
PWrite(p) ==
    /\ procs[p].pc = "write"
    /\ LET pr == procs[p]
           new_payload == CreatePayload(pr.payload, IdentifierOf(pr), pr.raw)
       IN  CASE Branch(pr.count) = "create"
                  /\ _validate_new_history_doc_payload(new_payload) ->
                  \E new_ref \in NewRefs(docs) :
                      /\ docs' = [docs EXCEPT ![new_ref] =
                                    DocSetMerge(@, CoerceId(new_payload))]
                      /\ procs' = [procs EXCEPT ![p] =
                             [@ EXCEPT !.pc = "last_edit", !.op = "create",
                                       !.target = new_ref]]
             [] Branch(pr.count) = "update"
                  /\ _validate_update_history_doc_payload(pr.payload) ->
                  /\ docs' = [docs EXCEPT ![UpdateTarget(pr.history_refs)] =
                                DocSetMerge(@, CoerceId(pr.payload))]
                  /\ procs' = [procs EXCEPT ![p] =
                         [@ EXCEPT !.pc = "last_edit", !.op = "update",
                                   !.target = UpdateTarget(pr.history_refs)]]
             [] OTHER ->
                  /\ procs' = [procs EXCEPT ![p] =
                         [@ EXCEPT !.pc = "done", !.result = ERROR,
                                   !.op = IF Branch(pr.count) = "ambiguous"
                                          THEN "ambiguous" ELSE "invalid"]]
                  /\ docs' = docs
    /\ UNCHANGED <<pc, last, access, batch, people, applied, paging, threads>>

\* _update_last_edit after the primary write; the call returns its code.
PLastEdit(p) ==
    /\ procs[p].pc = "last_edit"
    /\ docs' = [docs EXCEPT ![procs[p].target] =
                   _update_last_edit(@, PathOf(procs[p].target))]
    /\ procs' = [procs EXCEPT ![p] =
           [@ EXCEPT !.pc = "done",
                     !.result = ResultCode(SUCCESS,
                         IF procs[p].op = "create" THEN CREATED ELSE UPDATED)]]
    /\ UNCHANGED <<pc, last, access, batch, people, applied, paging, threads>>

NextConc ==
    \E p \in Procs :
        \/ PBegin(p)
        \/ PResolve(p)
        \/ PDedup(p)
        \/ PWrite(p)
        \/ PLastEdit(p)

SpecConc == Init /\ [][NextConc]_vars


(***************************************************************************)
(* Further input alphabets: non-canonical urls, and the _old, uuid and     *)
(* current_related_urls fields.                                            *)
(***************************************************************************)
PayloadsUrl ==
    {Payload(u, i, Absent) :
        u \in {Absent, StrV("a.com"), StrV("www.a.com")},
        i \in {Absent, IntV(1), IntV(-2)}}

RawsUrl == {NoneV, IntV(1), StrV("a.com"), StrV("www.a.com")}

NextUrl ==
    \/ Call(PayloadsUrl, RawsUrl, {NoFault})
    \/ Repeat
    \/ Forget

SpecUrl == Init /\ [][NextUrl]_vars

PayloadsKeys ==
    {Payload(StrV("a.com"), Absent, Absent),
     [EmptyDoc EXCEPT !["dealroom_id"] = IntV(-2),
                      !["dealroom_id_old"] = IntV(1)],
     [EmptyDoc EXCEPT !["dealroom_uuid"] = IntV(-2),
                      !["dealroom_uuid_old"] = StrV("u1")],
     [EmptyDoc EXCEPT !["final_url"] = StrV(""),
                      !["current_related_urls"] = ListV({"a.com"})]}

RawsKeys == {NoneV, IntV(1), StrV("u1"), StrV("a.com")}

NextKeys ==
    \/ Call(PayloadsKeys, RawsKeys, {NoFault})
    \/ Forget

SpecKeys == Init /\ [][NextKeys]_vars


(***************************************************************************)
(* Calls under store failures: every place where a store operation of      *)
(* set_history_doc_refs can fail, with and without a successful retry.     *)
(***************************************************************************)
PayloadsFault == {Payload(StrV("a.com"), Absent, Absent),
                  Payload(StrV("a.com"), IntV(1), Absent)}

RawsFault == {NoneV, IntV(1)}

\* No failure; a stream() attempt failing once and twice; a query failing
\* while consumed; a failing DocumentReference.get; the primary write or the
\* last_edit update failing once and twice.
FaultsAll ==
    {NoFault,
     Fault(TRUE, FALSE, FALSE, FALSE, FALSE, FALSE, FALSE, FALSE),
     Fault(TRUE, TRUE, FALSE, FALSE, FALSE, FALSE, FALSE, FALSE),
     Fault(FALSE, FALSE, TRUE, FALSE, FALSE, FALSE, FALSE, FALSE),
     Fault(FALSE, FALSE, FALSE, TRUE, FALSE, FALSE, FALSE, FALSE),
     Fault(FALSE, FALSE, FALSE, FALSE, TRUE, FALSE, FALSE, FALSE),
     Fault(FALSE, FALSE, FALSE, FALSE, FALSE, TRUE, FALSE, FALSE),
     Fault(FALSE, FALSE, FALSE, FALSE, TRUE, FALSE, TRUE, FALSE),
     Fault(FALSE, FALSE, FALSE, FALSE, FALSE, TRUE, FALSE, TRUE)}

NextFault ==
    \/ Call(PayloadsFault, RawsFault, FaultsAll)
    \/ Forget

SpecFault == Init /\ [][NextFault]_vars


(***************************************************************************)
(* Calls with invalid identity fields: a dealroom_id that is 0, not        *)
(* numeric or a UUID, a dealroom_uuid that is 0, not a UUID or a positive  *)
(* integer, and a final_url the normalizer rejects, in the payload or as   *)
(* the raw argument.                                                       *)
(***************************************************************************)
InvalidIds == {IntV(0), StrV("x"), StrV("u1")}

InvalidUuids == {IntV(0), StrV("x"), IntV(1)}

PayloadsInvalid ==
    {Payload(StrV("a.com"), Absent, Absent),
     Payload(StrV("a.com"), IntV(1), Absent),
     Payload(StrV("bad"), Absent, Absent),
     Payload(StrV("bad"), IntV(1), Absent)}
    \cup {Payload(u, i, Absent) : u \in {Absent, StrV("a.com")}, i \in InvalidIds}
    \cup {Payload(u, Absent, j) : u \in {Absent, StrV("a.com")}, j \in InvalidUuids}

RawsInvalid == {NoneV, IntV(1), StrV("a.com"), StrV("bad")}

NextInvalid ==
    \/ Call(PayloadsInvalid, RawsInvalid, {NoFault})
    \/ Forget

SpecInvalid == Init /\ [][NextInvalid]_vars


(***************************************************************************)
(* Direct calls of the store access layer, on documents of the history     *)
(* collection, of the people collection and of nested paths.               *)
(***************************************************************************)
AccessFns == {"get", "set", "update", "stream"}

AccessPaths == {<<"history", 1>>, <<"people", 1>>,
                <<"history", 1, "history", 1>>, <<"people", 1, "history", 1>>}

AccessDocs == {EmptyDoc, Payload(StrV("a.com"), IntV(1), Absent)}

AccessPayload == Payload(StrV("a.com"), IntV(NOT_IN_DB), Absent)

AccessFaults ==
    {Fault(c1, c2, it, FALSE, s1, u1, s2, u2) :
        c1 \in BOOLEAN, c2 \in BOOLEAN, it \in BOOLEAN, s1 \in BOOLEAN,
        u1 \in BOOLEAN, s2 \in BOOLEAN, u2 \in BOOLEAN}

\* A caller calls get, set, update or stream.
Access ==
    /\ access = NoAccess
    /\ \E fn \in AccessFns, path \in AccessPaths, doc \in AccessDocs,
          f \in AccessFaults :
           access' = AccessCall(fn, path, doc, AccessPayload, f)
    /\ UNCHANGED <<docs, pc, last, procs, batch, people, applied, paging, threads>>

\* The caller drops what the call returned and goes on.
Release ==
    /\ access # NoAccess
    /\ access' = NoAccess
    /\ UNCHANGED <<docs, pc, last, procs, batch, people, applied, paging, threads>>

NextAccess ==
    \/ Access
    \/ Release

SpecAccess == Init /\ [][NextAccess]_vars

(***************************************************************************)
(* The Batcher (batch.py).  total_writes is the private counter            *)
(* __total_writes, queued the number of writes the underlying WriteBatch   *)
(* holds.  The record also keeps the last call: its name, its path, its    *)
(* outcome, the counter and the number of queued writes before it, the     *)
(* keyword arguments it was given, the                                     *)
(* primary write it queued and the commit attempts it made; reused says    *)
(* that a commit of this instance succeeded, refused that a queuing call   *)
(* of this instance failed with the over-limit error.                      *)
(***************************************************************************)
MAX_WRITES_PER_BATCH == 500

\* How far past the limit the counter is followed.
MaxOverLimit == 2

\* The decorator: the counter is incremented first, then compared with the
\* limit; the wrapped function only runs when the comparison passes.
_count_write_unlimited(total_writes) ==
    [ total_writes |-> total_writes + 1, raised |-> FALSE ]

_count_write(total_writes) ==
    [ total_writes |-> total_writes + 1,
      raised       |-> total_writes + 1 > MAX_WRITES_PER_BATCH ]

\* _check_if_update_last_edit: the two-segment history path.
_check_if_update_last_edit(path) == IssuesLastEdit(path)

\* Keyword arguments are sets of <<name, value>> pairs.
final_kwargs_caller_wins(kwargs) ==
    IF \E kv \in kwargs : kv[1] = "merge" THEN kwargs
    ELSE kwargs \cup {<<"merge", TRUE>>}

\* set: final_kwargs = {**kwargs, "merge": True}.
final_kwargs(kwargs) ==
    {kv \in kwargs : kv[1] # "merge"} \cup {<<"merge", TRUE>>}

NoWrite == [op |-> "", path |-> <<>>, kwargs |-> {}]

\* The write that the method hands to the underlying WriteBatch.
BatcherWrite(op, path, kwargs) ==
    [ op |-> op, path |-> path,
      kwargs |-> IF op = "set" THEN final_kwargs(kwargs) ELSE {} ]

\* create and delete: one counted write.
BatcherPlain(b, op, path, kwargs) ==
    LET counted == _count_write(b.total_writes)
    IN  [ total_writes |-> counted.total_writes,
          queued       |-> IF counted.raised THEN b.queued ELSE b.queued + 1,
          result       |-> IF counted.raised THEN "InvalidArgument" ELSE "ok",
          op |-> op, path |-> path, kwargs |-> kwargs,
          prev         |-> b.total_writes,
          prev_queued  |-> b.queued,
          write        |-> IF counted.raised THEN NoWrite
                           ELSE BatcherWrite(op, path, kwargs),
          attempts     |-> <<>>,
          reused       |-> b.reused,
          refused      |-> b.refused \/ counted.raised ]

\* set and update: one counted write, queued, and then for a history
\* document the counted _update_last_edit.
BatcherWithLastEdit(b, op, path, kwargs) ==
    LET first == BatcherPlain(b, op, path, kwargs)
        counted == _count_write(first.total_writes)
    IN  IF first.result = "ok" /\ _check_if_update_last_edit(path)
        THEN [ first EXCEPT
                 !.total_writes = counted.total_writes,
                 !.queued = IF counted.raised THEN @ ELSE @ + 1,
                 !.result = IF counted.raised THEN "InvalidArgument" ELSE "ok",
                 !.refused = @ \/ counted.raised ]
        ELSE first

BatcherCall(b, op, path, kwargs) ==
    IF op \in {"set", "update"}
    THEN BatcherWithLastEdit(b, op, path, kwargs)
    ELSE BatcherPlain(b, op, path, kwargs)

\* The attempts of commit(retry=True): TRUE for one that succeeded.
CommitAttemptsNoRetry(fail_first, fail_second) == <<~fail_first>>

CommitAttempts(fail_first, fail_second) ==
    IF fail_first THEN <<FALSE, ~fail_second>> ELSE <<TRUE>>

\* A commit that keeps the counter.
commit_keeps_counter(b, fail_first, fail_second) ==
    LET attempts == CommitAttempts(fail_first, fail_second)
        done == attempts[Len(attempts)]
    IN  [ b EXCEPT !.queued = IF done THEN 0 ELSE @,
                   !.result = IF done THEN SUCCESS ELSE ERROR,
                   !.op = "commit", !.path = <<>>, !.kwargs = {},
                   !.prev = b.total_writes, !.prev_queued = b.queued,
                   !.write = NoWrite, !.attempts = attempts,
                   !.reused = @ \/ done ]

\* commit(retry=True): the counter is reset after a commit that succeeded
\* (the underlying WriteBatch has sent and dropped its writes); a commit
\* that failed is tried once more, and when that fails too nothing changes.
commit(b, fail_first, fail_second) ==
    LET attempts == CommitAttempts(fail_first, fail_second)
        done == attempts[Len(attempts)]
    IN  [ total_writes |-> IF done THEN 0 ELSE b.total_writes,
          queued       |-> IF done THEN 0 ELSE b.queued,
          result       |-> IF done THEN SUCCESS ELSE ERROR,
          op |-> "commit", path |-> <<>>, kwargs |-> {},
          prev         |-> b.total_writes,
          prev_queued  |-> b.queued,
          write        |-> NoWrite,
          attempts     |-> attempts,
          reused       |-> b.reused \/ done,
          refused      |-> b.refused ]

BatcherOps == {"set", "create", "update", "delete"}

BatcherPaths == {<<"history", 1>>, <<"people", 1>>, <<"history", 1, "history", 1>>}

BatcherKwargs == { {}, {<<"merge", FALSE>>} }

Queue ==
    /\ batch.total_writes < MAX_WRITES_PER_BATCH + MaxOverLimit
    /\ \E op \in BatcherOps, path \in BatcherPaths :
           \E kwargs \in (IF op = "set" THEN BatcherKwargs ELSE {{}}) :
               batch' = BatcherCall(batch, op, path, kwargs)
    /\ UNCHANGED <<docs, pc, last, procs, access, people, applied, paging, threads>>

Commit ==
    /\ \E fail_first \in BOOLEAN, fail_second \in BOOLEAN :
           batch' = commit(batch, fail_first, fail_second)
    /\ UNCHANGED <<docs, pc, last, procs, access, people, applied, paging, threads>>

NextBatch ==
    \/ Queue
    \/ Commit

SpecBatch == Init /\ [][NextBatch]_vars

(***************************************************************************)
(* The people collection: get_people_doc_refs and set_people_doc_ref.      *)
(***************************************************************************)
\* get_people_doc_refs: the matching documents in stream order ("ok"),
\* None when there is none ("none"), ERROR from exc_handler when stream
\* gave ERROR, RAISED when consuming the results raised.
get_people_doc_refs(d, field_name, operator, field_value, f) ==
    LET matching_docs == _filtered_stream_refs(d, field_name, operator,
                                               field_value, f)
    IN  IF matching_docs.status = "fce" THEN [status |-> ERROR, refs |-> <<>>]
        ELSE IF matching_docs.status = "exc" THEN [status |-> RAISED, refs |-> <<>>]
        ELSE IF Len(matching_docs.refs) = 0 THEN [status |-> "none", refs |-> <<>>]
        ELSE [status |-> "ok", refs |-> matching_docs.refs]

_validate_new_people_any(payload) == TRUE

_validate_new_people_doc_payload(payload) ==
    IF payload["dealroom_id"].k = "absent"
    THEN IF payload["dealroom_uuid"].k = "absent" THEN FALSE
         ELSE _validate_dealroom_uuid(payload["dealroom_uuid"])
    ELSE /\ _validate_dealroom_id(payload["dealroom_id"])
         /\ (payload["dealroom_uuid"].k # "absent"
                 => _validate_dealroom_uuid(payload["dealroom_uuid"]))

\* doc_ref.path.split("/") of a document of the people collection.
PeoplePathOf(ref) == <<"people", ref>>

PeopleOutcome(result, d, op, matching_docs, target) ==
    [result |-> result, docs |-> d, op |-> op,
     matching_docs |-> matching_docs, target |-> target]

\* Lines 810-811: the UPDATE path validates dealroom_id when it is present.
PeopleUpdateValid(payload) ==
    payload["dealroom_id"].k # "absent"
        => _validate_dealroom_id(payload["dealroom_id"])

\* set_people_doc_ref.  new_ref: the reference people_collection_ref.document()
\* allocates.  len() of the ERROR status code raises TypeError, and the
\* ValueError of the UPDATE path's validation is not caught.
set_people_doc_ref(d, field_name, operator, field_value, payload, f, new_ref) ==
    LET queried == field_name # "" /\ operator # "" /\ Truthy(field_value)
        people_refs ==
            IF queried
            THEN get_people_doc_refs(d, field_name, operator, field_value, f)
            ELSE [status |-> "ok", refs |-> <<>>]
        matching_docs == Len(people_refs.refs)
        created == set(d[new_ref], PeoplePathOf(new_ref), payload, f)
        target == people_refs.refs[1]
        updated == set(d[target], PeoplePathOf(target), payload, f)
    IN  IF people_refs.status \in {ERROR, RAISED}
        THEN PeopleOutcome(RAISED, d, "none", 0, 0)
        ELSE IF matching_docs = 0
        THEN IF ~_validate_new_people_doc_payload(payload)
             THEN PeopleOutcome(ERROR, d, "invalid", 0, 0)
             ELSE PeopleOutcome(ResultCode(created.status, CREATED),
                                [d EXCEPT ![new_ref] = created.doc],
                                "create", 0, new_ref)
        ELSE IF matching_docs = 1
        THEN IF ~PeopleUpdateValid(payload)
             THEN PeopleOutcome(RAISED, d, "invalid", 1, target)
             ELSE PeopleOutcome(ResultCode(updated.status, UPDATED),
                                [d EXCEPT ![target] = updated.doc],
                                "update", 1, target)
        ELSE PeopleOutcome(ERROR, d, "ambiguous", matching_docs, 0)

\* The caller's (field_name, operator, field_value): by id, by uuid, and a
\* falsy value, for which no query is made.
PeopleQueries == { <<"dealroom_id", "==", IntV(1)>>,
                   <<"dealroom_uuid", "==", StrV("u1")>>,
                   <<"dealroom_id", "==", IntV(0)>> }

PeoplePayloads ==
    {Payload(u, i, x) :
        u \in {Absent, StrV("a.com")},
        i \in {Absent, IntV(1), IntV(0)},
        x \in {Absent, StrV("u1")}}

\* Store failures: none, the query failing in both attempts, the query
\* failing while it is consumed, the write failing in both attempts.
PeopleFaults ==
    {NoFault,
     Fault(TRUE, TRUE, FALSE, FALSE, FALSE, FALSE, FALSE, FALSE),
     Fault(FALSE, FALSE, TRUE, FALSE, FALSE, FALSE, FALSE, FALSE),
     Fault(FALSE, FALSE, FALSE, FALSE, TRUE, FALSE, TRUE, FALSE)}

\* One whole call of set_people_doc_ref.
PeopleCall ==
    /\ ~people.call.called
    /\ \E q \in PeopleQueries, payload \in PeoplePayloads, f \in PeopleFaults,
          new_ref \in DocIds :
           LET out == set_people_doc_ref(people.docs, q[1], q[2], q[3],
                                         payload, f, new_ref)
           IN  /\ IF out.op = "create" THEN new_ref \in NewRefs(people.docs)
                                       ELSE new_ref = 1
               /\ people' =
                    [docs |-> out.docs,
                     call |-> [called |-> TRUE, field_name |-> q[1],
                               operator |-> q[2], field_value |-> q[3],
                               payload |-> payload, fault |-> f,
                               pre |-> people.docs,
                               out |-> [result |-> out.result, op |-> out.op,
                                        matching_docs |-> out.matching_docs,
                                        target |-> out.target]]]
    /\ UNCHANGED <<docs, pc, last, procs, access, batch, applied, paging, threads>>

\* The caller drops the result and goes on to its next call.
PeopleForget ==
    /\ people.call.called
    /\ people' = [people EXCEPT !.call = NoPeopleCall]
    /\ UNCHANGED <<docs, pc, last, procs, access, batch, applied, paging, threads>>

NextPeople ==
    \/ PeopleCall
    \/ PeopleForget

SpecPeople == Init /\ [][NextPeople]_vars

(***************************************************************************)
(* A history collection with room for more documents, and calls that all   *)
(* name the url a.com: one identifier that is created, deleted (-2) and    *)
(* put back in progress (-1) again and again.                              *)
(***************************************************************************)
\* Number of document ids of this collection.
MaxWideDocs == 5

WideDocIds == 1..MaxWideDocs

InitWide ==
    /\ docs = [ref \in WideDocIds |-> EmptyDoc]
    /\ pc = "idle"
    /\ last = NoCall
    /\ procs = NoProcs
    /\ access = NoAccess
    /\ batch = NewBatcher
    /\ people = NoPeople
    /\ applied = NoApplied
    /\ paging = NoPaging
    /\ threads = NoThreads

PayloadsWide == {Payload(StrV("a.com"), Absent, Absent),
                 Payload(Absent, IntV(DELETED), Absent),
                 Payload(Absent, IntV(NOT_IN_DB), Absent)}

RawsWide == {IntV(1)}

\* One whole call of set_history_doc_refs; history_col.document() gives a
\* reference no document of the collection has.
WideCall ==
    /\ pc = "idle"
    /\ \E payload \in PayloadsWide, raw \in RawsWide, new_ref \in WideDocIds :
           LET out == set_history_doc_refs(docs, payload, raw, NoFault, new_ref)
           IN  /\ IF out.op = "create" THEN ~Exists(docs, new_ref)
                                       ELSE new_ref = 1
               /\ docs' = out.docs
               /\ last' = CallRecord(payload, raw, NoFault, docs, out, FALSE,
                                     NoFirst)
               /\ pc' = "returned"
    /\ UNCHANGED <<procs, access, batch, people, applied, paging, threads>>

NextWide ==
    \/ WideCall
    \/ Forget

SpecWide == InitWide /\ [][NextWide]_vars

(***************************************************************************)
(* The pure functions of the identity model, applied to one argument each: *)
(* the argument (and the payload of _get_final_url_and_dealroom_id) is     *)
(* drawn at the start, then one of the functions is applied to it.  The    *)
(* result of a validator is TRUE when it returns and FALSE when it raises  *)
(* ValueError.                                                             *)
(***************************************************************************)
\* How far below zero the integer arguments go (past the sentinel DELETED).
MaxBelowZero == 3

MinInt == 0 - MaxBelowZero

\* Greatest integer of the arguments.
MaxInt == 2

PureValues ==
    {NoneV} \cup {IntV(n) : n \in MinInt..MaxInt}
            \cup {StrV(s) : s \in IntStrings \cup UUIDStrings
                                    \cup {"", "a.com", "bad"}}

PurePayloads ==
    {Payload(u, i, x) :
        u \in {Absent, StrV(""), StrV("a.com")},
        i \in {Absent, IntV(2)},
        x \in {Absent, StrV("u2")}}

InitPure ==
    /\ docs = [ref \in DocIds |-> EmptyDoc]
    /\ pc = "idle"
    /\ last = NoCall
    /\ procs = NoProcs
    /\ access = NoAccess
    /\ batch = NewBatcher
    /\ people = NoPeople
    /\ applied \in {[NoApplied EXCEPT !.payload = p, !.value = v] :
                        p \in PurePayloads, v \in PureValues}
    /\ paging = NoPaging
    /\ threads = NoThreads

Applied(fn, result) ==
    /\ applied.fn = ""
    /\ applied' = [applied EXCEPT !.fn = fn, !.result = result]
    /\ UNCHANGED <<docs, pc, last, procs, access, batch, people, paging, threads>>

ApplyGetFinalUrlAndDealroomId ==
    Applied("_get_final_url_and_dealroom_id",
            _get_final_url_and_dealroom_id(applied.payload, applied.value))

ApplyDetermineIdentifier ==
    Applied("determine_identifier", determine_identifier(applied.value))

ApplyValidateDealroomId ==
    Applied("_validate_dealroom_id", _validate_dealroom_id(applied.value))

ApplyValidateDealroomUuid ==
    Applied("_validate_dealroom_uuid", _validate_dealroom_uuid(applied.value))

NextPure ==
    \/ ApplyGetFinalUrlAndDealroomId
    \/ ApplyDetermineIdentifier
    \/ ApplyValidateDealroomId
    \/ ApplyValidateDealroomUuid

SpecPure == InitPure /\ [][NextPure]_vars

(***************************************************************************)
(* The resolver called on its own, on a collection that upserts have       *)
(* filled.                                                                 *)
(***************************************************************************)
ResolveUrls == {NoneV, StrV("a.com"), StrV("www.a.com"), StrV("bad")}

ResolveIds == {NoneV, IntV(1), StrV("1"), StrV("u1"), IntV(NOT_IN_DB)}

\* A caller calls get_history_doc_refs(db, final_url, dealroom_id).
Resolve ==
    /\ pc = "idle"
    /\ applied = NoApplied
    /\ \E final_url \in ResolveUrls, dealroom_id \in ResolveIds :
           applied' = [NoApplied EXCEPT
                          !.fn = "get_history_doc_refs",
                          !.final_url = final_url,
                          !.value = dealroom_id,
                          !.pre = docs,
                          !.result = get_history_doc_refs(docs, final_url,
                                                          dealroom_id, NoFault)]
    /\ UNCHANGED <<docs, pc, last, procs, access, batch, people, paging, threads>>

\* The caller drops the map and goes on.
ResolveForget ==
    /\ applied # NoApplied
    /\ applied' = NoApplied
    /\ UNCHANGED <<docs, pc, last, procs, access, batch, people, paging, threads>>

NextResolve ==
    \/ applied = NoApplied /\ Call(PayloadsKeys, RawsKeys, {NoFault})
    \/ Forget
    \/ Resolve
    \/ ResolveForget

SpecResolve == Init /\ [][NextResolve]_vars

(***************************************************************************)
(* get_all: the paged fetch of a query.  A document snapshot is its        *)
(* document id; start_at = 0 is None.  Each call of the inner _get_all is  *)
(* one step.                                                               *)
(***************************************************************************)
\* Number of documents the query selects at most.
MaxResults == 4

\* Largest page_size.
MaxPageSize == 3

\* Query results: every order of every set of documents.
QueryResults ==
    {q \in UNION {[1..n -> 1..MaxResults] : n \in 0..MaxResults} :
        \A i, j \in DOMAIN q : i # j => q[i] # q[j]}

\* Position of a document in the query order (0 for None).
Position(all, doc) ==
    IF doc = 0 THEN 0 ELSE CHOOSE i \in DOMAIN all : all[i] = doc

Min(a, b) == IF a < b THEN a ELSE b

\* stream(base_query.start_after(start_at).limit(page_size)), consumed: the
\* documents after start_at (from the first, for None), page_size at most.
StreamPage(all, start_at, page_size) ==
    SubSeq(all, Position(all, start_at) + 1,
           Min(Position(all, start_at) + page_size, Len(all)))

\* len(results) > page_size in the place of >=.
has_more_results_strict(results, page_size) == Len(results) > page_size

has_more_results(results, page_size) == Len(results) >= page_size

InitPaging ==
    /\ docs = [ref \in DocIds |-> EmptyDoc]
    /\ pc = "idle"
    /\ last = NoCall
    /\ procs = NoProcs
    /\ access = NoAccess
    /\ batch = NewBatcher
    /\ people = NoPeople
    /\ applied = NoApplied
    /\ paging = NoPaging
    /\ threads = NoThreads

\* get_all(base_query, page_size) is called: _get_all() with res = [] and
\* start_at = None is pending.
get_all ==
    /\ paging.pc = "idle"
    /\ \E all \in QueryResults, page_size \in 1..MaxPageSize,
          fail_at \in 0..(MaxResults + 1) :
           paging' = [NoPaging EXCEPT !.pc = "_get_all", !.all = all,
                                      !.page_size = page_size,
                                      !.fail_at = fail_at]
    /\ UNCHANGED <<docs, pc, last, procs, access, batch, people, applied, threads>>

\* One call of _get_all(res, start_at): ERROR when stream gave ERROR;
\* otherwise the page is appended, and either the next _get_all is called
\* with the last document of the page or the sum is returned.
_get_all ==
    /\ paging.pc = "_get_all"
    /\ LET results == StreamPage(paging.all, paging.start_at, paging.page_size)
           sum_results == paging.res \o results
           fetched == Append(paging.pages,
                             [start_at |-> paging.start_at, docs |-> results])
       IN  IF paging.fail_at = Len(paging.pages) + 1
           THEN paging' = [paging EXCEPT !.pc = "done", !.result = ERROR]
           ELSE IF has_more_results(results, paging.page_size)
           THEN paging' = [paging EXCEPT !.res = sum_results,
                                         !.start_at = results[Len(results)],
                                         !.pages = fetched]
           ELSE paging' = [paging EXCEPT !.pc = "done", !.result = "list",
                                         !.res = sum_results,
                                         !.returned = sum_results,
                                         !.pages = fetched]
    /\ UNCHANGED <<docs, pc, last, procs, access, batch, people, applied, threads>>

\* The caller drops what get_all returned and goes on.
PagingForget ==
    /\ paging.pc = "done"
    /\ paging' = NoPaging
    /\ UNCHANGED <<docs, pc, last, procs, access, batch, people, applied, threads>>

NextPaging ==
    \/ get_all
    \/ _get_all
    \/ PagingForget

\* get_all is a blocking call: a pending _get_all runs.
SpecPaging == InitPaging /\ [][NextPaging]_vars /\ WF_vars(_get_all)

(***************************************************************************)
(* One Batcher shared by two threads without a lock.  The statement        *)
(* self.__total_writes += 1 of count_write_wrapper reads the counter and   *)
(* writes it back in two steps, between which the other thread may run.    *)
(* The Batcher is first filled by calls that do not overlap; then each     *)
(* thread makes one call of a counted write (delete, create, update).      *)
(***************************************************************************)
\* No thread has begun its call.
NoneStarted == \A t \in Threads : threads.th[t].pc = "idle"

\* The counter written back had the increment been atomic.
StoredCounterAtomic(total_writes, read) == total_writes + 1

\* self.__total_writes += 1, the write-back: the value read, plus one.
StoredCounter(total_writes, read) == read + 1

\* A whole counted write that no other call overlaps.
CountedWrite ==
    /\ NoneStarted
    /\ threads.total_writes < MAX_WRITES_PER_BATCH + MaxOverLimit
    /\ LET counted == _count_write(threads.total_writes)
       IN  threads' = [threads EXCEPT
                          !.total_writes = counted.total_writes,
                          !.queued = IF counted.raised THEN @ ELSE @ + 1]
    /\ UNCHANGED <<docs, pc, last, procs, access, batch, people, applied, paging>>

ThreadStep(t, from, to, total_writes, queued, read) ==
    /\ threads.th[t].pc = from
    /\ threads' = [threads EXCEPT !.th[t].pc = to, !.th[t].read = read,
                                  !.total_writes = total_writes,
                                  !.queued = queued]
    /\ UNCHANGED <<docs, pc, last, procs, access, batch, people, applied, paging>>

\* self.__total_writes += 1: the counter is read.
LoadCounter(t) ==
    ThreadStep(t, "idle", "loaded", threads.total_writes, threads.queued,
               threads.total_writes)

\* self.__total_writes += 1: the sum is written back.
StoreCounter(t) ==
    ThreadStep(t, "loaded", "stored",
               StoredCounter(threads.total_writes, threads.th[t].read),
               threads.queued, threads.th[t].read)

\* if self.__total_writes > self.MAX_WRITES_PER_BATCH: raise InvalidArgument
CheckLimit(t) ==
    ThreadStep(t, "stored",
               IF threads.total_writes > MAX_WRITES_PER_BATCH
               THEN "raised" ELSE "checked",
               threads.total_writes, threads.queued, threads.th[t].read)

\* func(self, *args, **kwargs): the write is queued on the WriteBatch.
QueueWrite(t) ==
    ThreadStep(t, "checked", "queued", threads.total_writes,
               threads.queued + 1, threads.th[t].read)

NextThreads ==
    \/ CountedWrite
    \/ \E t \in Threads : LoadCounter(t)
    \/ \E t \in Threads : StoreCounter(t)
    \/ \E t \in Threads : CheckLimit(t)
    \/ \E t \in Threads : QueueWrite(t)

SpecThreads == Init /\ [][NextThreads]_vars

(***************************************************************************)
(* Upserts on documents that were marked deleted, with the identifier they *)
(* had kept in dealroom_id_old.                                            *)
(***************************************************************************)
PayloadsOld ==
    {Payload(StrV("a.com"), Absent, Absent),
     [EmptyDoc EXCEPT !["dealroom_id"] = IntV(DELETED),
                      !["dealroom_id_old"] = IntV(1)],
     [EmptyDoc EXCEPT !["dealroom_id"] = IntV(DELETED),
                      !["dealroom_id_old"] = IntV(2)]}

RawsOld == {IntV(1), IntV(2), StrV("a.com")}

NextOld ==
    \/ Call(PayloadsOld, RawsOld, {NoFault})
    \/ Forget

SpecOld == Init /\ [][NextOld]_vars



(***************************************************************************)
(* The call that returned, for the properties below.                       *)
(***************************************************************************)
\* The identifier of the call (a DealroomIdentifier, or the plain -1).
LastIdentifier == IdentifierOf(last)

\* A concrete raw identifier was supplied.
LastConcrete == last.called /\ LastIdentifier.tag = "ident"

\* The resolver found no document by the identifier's primary or _old field.
LastNoIdMatch ==
    /\ LastConcrete
    /\ last.out.status = "ok"
    /\ last.out.refs[LastIdentifier.field_name] = <<>>
    /\ last.out.refs[LastIdentifier.field_name_old] = <<>>

\* The documents the resolver found by final_url.
LastUrlList == last.out.refs["final_url"]

Range(seq) == {seq[n] : n \in 1..Len(seq)}

Existing(d) == {ref \in DocIds : Exists(d, ref)}

\* The call added exactly one document and changed no other.
AddedOne(pre, post) ==
    /\ Cardinality(Existing(post)) = Cardinality(Existing(pre)) + 1
    /\ \A ref \in Existing(pre) : post[ref] = pre[ref]

\* A value that is an identifier and not a sentinel.
IsConcrete(v) == is_valid_id(v) \/ is_valid_uuid(v)

\* The payload of a new document passes validation.
LastCreateValid ==
    _validate_new_history_doc_payload(
        CreatePayload(last.payload, LastIdentifier, last.raw))


(***************************************************************************)
(* C1.  Sequential calls keep every concrete identifier value in the       *)
(* primary field (dealroom_id, dealroom_uuid) of at most one document.     *)
(* The collection starts empty, so the invariant holds at the start.       *)
(***************************************************************************)
C1_AtMostOnePrimaryHolder ==
    \A ref1, ref2 \in Existing(docs) :
        \A field \in {"dealroom_id", "dealroom_uuid"} :
            (ref1 # ref2 /\ IsConcrete(docs[ref1][field]))
                => docs[ref1][field] # docs[ref2][field]

(***************************************************************************)
(* C2.  Two concurrent calls for one identity that both saw no candidate   *)
(* and whose payloads pass validation both return CREATED, each on a       *)
(* document of its own: the collection ends with two documents for the     *)
(* identity.  The witness is the interleaving in which this happens.       *)
(***************************************************************************)
SameIdentity(pr1, pr2) ==
    \/ Truthy(FinalUrlOf(pr1)) /\ FinalUrlOf(pr1) = FinalUrlOf(pr2)
    \/ IdentifierOf(pr1).tag = "ident" /\ IdentifierOf(pr1) = IdentifierOf(pr2)

\* The call of this caller returned after its resolver found no document at
\* all, and the payload it would create passes validation.
SawNoCandidate(pr) ==
    /\ pr.pc = "done"
    /\ pr.history_refs.status = "ok"
    /\ pr.op # "none"
    /\ \A key \in Keys : pr.history_refs.refs[key] = <<>>
    /\ _validate_new_history_doc_payload(
           CreatePayload(pr.payload, IdentifierOf(pr), pr.raw))

C2_RaceCreatesTwo ==
    ( /\ SawNoCandidate(procs["p1"])
      /\ SawNoCandidate(procs["p2"])
      /\ SameIdentity(procs["p1"], procs["p2"]) )
    => /\ procs["p1"].result = CREATED
       /\ procs["p2"].result = CREATED
       /\ procs["p1"].target # procs["p2"].target
       /\ Exists(docs, procs["p1"].target)
       /\ Exists(docs, procs["p2"].target)
       /\ Cardinality(Existing(docs)) = 2

C2_Witness ==
    /\ SawNoCandidate(procs["p1"])
    /\ SawNoCandidate(procs["p2"])
    /\ SameIdentity(procs["p1"], procs["p2"])
    /\ procs["p1"].result = CREATED
    /\ procs["p2"].result = CREATED
    /\ Cardinality({ref \in Existing(docs) :
                      docs[ref]["final_url"] = StrV("a.com")}) = 2

(***************************************************************************)
(* C3.  A call with payload {final_url} (url-shaped) and no identifier     *)
(* that matches no document returns CREATED, and the same call issued      *)
(* again returns UPDATED on the document the first call created, adding no *)
(* document.                                                               *)
(***************************************************************************)
OnlyFinalUrl(payload) ==
    /\ extract(payload["final_url"]).ok
    /\ \A f \in Fields \ {"final_url"} : payload[f] = Absent

C3_SecondCallUpdatesSame ==
    ( /\ last.called
      /\ OnlyFinalUrl(last.payload)
      /\ last.raw = NoneV
      /\ last.fault = NoFault )
    => /\ (~last.repeat /\ last.out.count0 = 0) => last.out.result = CREATED
       /\ (last.repeat /\ last.first.result = CREATED)
              => /\ last.out.result = UPDATED
                 /\ last.out.target = last.first.target
                 /\ Existing(docs) = Existing(last.pre)

C3_Witness ==
    /\ last.called
    /\ last.repeat
    /\ OnlyFinalUrl(last.payload)
    /\ last.raw = NoneV
    /\ last.first.result = CREATED
    /\ last.out.result = UPDATED
    /\ last.out.target = last.first.target

\* A call that got its candidates and ran to a status code.
LastDecided ==
    /\ last.called
    /\ last.out.status = "ok"
    /\ last.out.result # RAISED

(***************************************************************************)
(* C4 as stated.  Whenever the candidate list of the winning key holds     *)
(* more than one document, the call returns ERROR and the collection is    *)
(* unchanged.                                                              *)
(***************************************************************************)
C4_LongListIsError ==
    (LastDecided /\ last.out.count0 > 1)
        => (last.out.result = ERROR /\ docs = last.pre)

(***************************************************************************)
(* C4 amended.  Whenever the adjusted candidate count (the length of the   *)
(* winning list less the dedup discounts) is more than one, the call       *)
(* returns ERROR and the collection is unchanged.                          *)
(***************************************************************************)
C4_AmbiguousIsError ==
    (LastDecided /\ last.out.count > 1)
        => /\ last.out.result = ERROR
           /\ last.out.op = "ambiguous"
           /\ docs = last.pre

C4_Witness ==
    /\ LastDecided
    /\ last.out.count > 1
    /\ last.out.result = ERROR
    /\ docs = last.pre

(***************************************************************************)
(* C5.  The adjusted count alone selects the branch: CREATED only for      *)
(* count <= 0 and on a fresh reference, UPDATED only for count = 1 and on  *)
(* an existing document, ERROR for count > 1; a count <= 0 (= 1) call      *)
(* whose payload is valid and whose write succeeds returns CREATED         *)
(* (UPDATED); CREATED and UPDATED only when set returned success; an ERROR *)
(* from validation or ambiguity leaves the collection unchanged.           *)
(***************************************************************************)
\* Only document ref differs between pre and post.
OnlyChanged(pre, post, ref) ==
    \A other \in DocIds \ {ref} : post[other] = pre[other]

C5_DecisionByCount ==
    LastDecided =>
        LET out == last.out
        IN  /\ out.result = CREATED
                => /\ out.count <= 0
                   /\ out.res = SUCCESS
                   /\ out.target \in NewRefs(last.pre)
                   /\ Exists(docs, out.target)
                   /\ OnlyChanged(last.pre, docs, out.target)
            /\ out.result = UPDATED
                => /\ out.count = 1
                   /\ out.res = SUCCESS
                   /\ Exists(last.pre, out.target)
                   /\ docs[out.target] =
                          _update_last_edit(
                              DocSetMerge(last.pre[out.target], out.written),
                              PathOf(out.target))
                   /\ OnlyChanged(last.pre, docs, out.target)
            /\ out.count > 1 => out.result = ERROR
            /\ (out.count <= 0 /\ LastCreateValid /\ last.fault = NoFault)
                => out.result = CREATED
            /\ (out.count = 1 /\ last.fault = NoFault
                    /\ _validate_update_history_doc_payload(last.payload))
                => out.result = UPDATED
            /\ out.op \in {"invalid", "ambiguous"}
                => (out.result = ERROR /\ docs = last.pre)
            /\ out.result \in {CREATED, UPDATED, ERROR}

C5_Witness ==
    /\ LastDecided
    /\ last.out.op = "create"
    /\ last.out.count <= 0
    /\ last.out.res = ERROR
    /\ last.out.result = ERROR

(***************************************************************************)
(* C6.  The winning key is the first field, in the order dealroom_id,      *)
(* dealroom_id_old, dealroom_uuid, dealroom_uuid_old, final_url,           *)
(* current_related_urls, whose candidate list is present and non-empty;    *)
(* the initial count is the length of that list; with every list empty or  *)
(* absent there is no winning key and the count is 0.                      *)
(***************************************************************************)
NonEmptyList(out, key) == key \in out.keys /\ out.refs[key] # <<>>

C6_FirstNonEmptyWins ==
    (last.called /\ last.out.status = "ok") =>
        LET out == last.out
            order == <<"dealroom_id", "dealroom_id_old", "dealroom_uuid",
                       "dealroom_uuid_old", "final_url",
                       "current_related_urls">>
        IN  /\ \A n \in 1..6 :
                   ( /\ NonEmptyList(out, order[n])
                     /\ \A m \in 1..(n - 1) : ~NonEmptyList(out, order[m]) )
                   => /\ out.key_found = order[n]
                      /\ out.count0 = Len(out.refs[order[n]])
            /\ (\A n \in 1..6 : ~NonEmptyList(out, order[n]))
                   => (out.key_found = "" /\ out.count0 = 0)

C6_Witness ==
    /\ last.called
    /\ last.out.status = "ok"
    /\ last.out.key_found = "dealroom_id_old"
    /\ NonEmptyList(last.out, "final_url")
    /\ last.out.count0 = Len(last.out.refs["dealroom_id_old"])

\* The value a candidate held in the identifier's primary field before the
\* call.
PrimaryBefore(ref) == DictGet(last.pre[ref], LastIdentifier.field_name)

\* The dedup adjustment ran in the call that returned.
LastDedup ==
    /\ LastDecided
    /\ LastConcrete
    /\ last.out.key_found = "final_url"

(***************************************************************************)
(* C7.  When the dedup adjustment on the final_url list leaves a count of  *)
(* 1, the document that receives the UPDATE is the candidate whose primary *)
(* identifier field is NOT_IN_DB, never a candidate discounted as deleted  *)
(* or as claimed by another concrete identifier.                           *)
(***************************************************************************)
C7_UpdateHitsUndiscounted ==
    (LastDedup /\ last.out.count = 1 /\ last.out.op = "update")
        => PrimaryBefore(last.out.target) = IntV(NOT_IN_DB)

\* The payload of the call passes validation for the branch taken and no
\* store operation fails.
LastCreateGoesThrough == LastCreateValid /\ last.fault = NoFault

LastUpdateGoesThrough ==
    /\ _validate_update_history_doc_payload(last.payload)
    /\ last.fault = NoFault

\* The final_url matches exactly one document, which holds DELETED.
LastOneDeleted ==
    /\ LastNoIdMatch
    /\ Len(LastUrlList) = 1
    /\ PrimaryBefore(LastUrlList[1]) = IntV(DELETED)

LastOneInProgress ==
    /\ LastNoIdMatch
    /\ Len(LastUrlList) = 1
    /\ PrimaryBefore(LastUrlList[1]) = IntV(NOT_IN_DB)

\* The payload carries the identifier of the call in its primary field.
PayloadCarriesIdentifier ==
    /\ last.payload[LastIdentifier.field_name].k # "absent"
    /\ CoerceId(last.payload)[LastIdentifier.field_name] = LastIdentifier.value

\* What the call did to an in-progress document found by final_url.
UpdatedInProgress ==
    /\ last.out.result = UPDATED
    /\ last.out.target = LastUrlList[1]
    /\ Existing(docs) = Existing(last.pre)
    /\ PayloadCarriesIdentifier
           => LET found == get_history_doc_refs(docs, StrV(""),
                               LastIdentifier.value, NoFault)
              IN  /\ found.status = "ok"
                  /\ found.refs[LastIdentifier.field_name] = <<LastUrlList[1]>>

(***************************************************************************)
(* C9 as stated.  A concrete identifier that matches no document, with a   *)
(* final_url that matches exactly one document holding NOT_IN_DB: the call *)
(* returns UPDATED on that document and adds none; when the payload        *)
(* carries the identifier, get_history_doc_refs then finds the document by *)
(* the identifier.                                                         *)
(***************************************************************************)
C9_InProgressClaimed == LastOneInProgress => UpdatedInProgress

(***************************************************************************)
(* C9 amended.  The same, provided the payload passes the update           *)
(* validation and the store write succeeds.                                *)
(***************************************************************************)
C9_InProgressClaimedValid ==
    (LastOneInProgress /\ LastUpdateGoesThrough) => UpdatedInProgress

C9_Witness ==
    /\ LastOneInProgress
    /\ LastUpdateGoesThrough
    /\ PayloadCarriesIdentifier
    /\ last.out.result = UPDATED
    /\ docs[LastUrlList[1]][LastIdentifier.field_name] = LastIdentifier.value

\* The final_url matches documents that all hold a concrete identifier other
\* than the one of the call.
LastAllClaimed ==
    /\ LastNoIdMatch
    /\ Len(LastUrlList) >= 1
    /\ \A ref \in Range(LastUrlList) :
           /\ IsConcrete(PrimaryBefore(ref))
           /\ PrimaryBefore(ref) # LastIdentifier.value

LastNoMatch ==
    /\ LastDecided
    /\ \A key \in Keys : last.out.refs[key] = <<>>

\* The value the payload gives a field, as written (dealroom_id as an int).
PayloadValue(field) == CoerceId(last.payload)[field]

(***************************************************************************)
(* C11.  With no store failure: payload {final_url: u}, u url-shaped, no   *)
(* raw identifier and no matching document gives CREATED and a new         *)
(* document with dealroom_id -1, dealroom_uuid -1 and final_url u.  With a *)
(* concrete raw identifier and no match, the document that is created has  *)
(* the identifier's field set to its value and final_url "", except for    *)
(* the keys the payload supplies, where the payload's value is stored.     *)
(***************************************************************************)
C11_NewDocumentFields ==
    (LastNoMatch /\ last.fault = NoFault) =>
        LET new == docs[last.out.target]
            field == LastIdentifier.field_name
        IN  /\ (OnlyFinalUrl(last.payload) /\ last.raw = NoneV)
                => /\ last.out.result = CREATED
                   /\ last.out.target \in NewRefs(last.pre)
                   /\ new["dealroom_id"] = IntV(NOT_IN_DB)
                   /\ new["dealroom_uuid"] = IntV(NOT_IN_DB)
                   /\ new["final_url"] = last.payload["final_url"]
            /\ (LastConcrete /\ last.out.result = CREATED)
                => /\ last.out.target \in NewRefs(last.pre)
                   /\ new[field] =
                          IF last.payload[field].k = "absent"
                          THEN LastIdentifier.value ELSE PayloadValue(field)
                   /\ new["final_url"] =
                          IF last.payload["final_url"].k = "absent"
                          THEN StrV("") ELSE last.payload["final_url"]
            /\ (LastConcrete /\ LastCreateValid) => last.out.result = CREATED

C11_Witness ==
    /\ LastNoMatch
    /\ last.fault = NoFault
    /\ LastConcrete
    /\ last.out.result = CREATED
    /\ last.payload["dealroom_id"].k # "absent"
    /\ last.payload["final_url"].k = "absent"
    /\ docs[last.out.target]["dealroom_id"] # LastIdentifier.value
    /\ docs[last.out.target]["final_url"] = StrV("")

(***************************************************************************)
(* C12.  A call with no raw identifier and a payload without the key       *)
(* final_url (the empty payload, or one that carries a dealroom_id or a    *)
(* dealroom_uuid) returns ERROR and writes nothing.                        *)
(***************************************************************************)
C12_NoFinalUrlIsError ==
    (last.called /\ last.raw = NoneV /\ last.payload["final_url"].k = "absent")
        => /\ last.out.result = ERROR
           /\ last.out.res = ""
           /\ docs = last.pre

C12_Witness ==
    /\ last.called
    /\ last.raw = NoneV
    /\ last.payload["final_url"].k = "absent"
    /\ is_valid_id(last.payload["dealroom_id"])
    /\ last.out.result = ERROR
    /\ last.out.op = "invalid"
    /\ docs = last.pre

\* A sentinel (-1, -2), given as an int or as a string.
IsSentinel(v) == v \in {IntV(NOT_IN_DB), IntV(DELETED), StrV("-1"), StrV("-2")}

\* The document has an identity field with a non-empty, non-sentinel value.
HasIdentity(doc) ==
    \/ Truthy(DictGet(doc, "final_url"))
    \/ doc["dealroom_id"].k # "absent" /\ ~IsSentinel(doc["dealroom_id"])
    \/ doc["dealroom_uuid"].k # "absent" /\ ~IsSentinel(doc["dealroom_uuid"])

(***************************************************************************)
(* C13.  Every document that set_history_doc_refs creates has an identity  *)
(* field with a non-empty, non-sentinel value: a non-empty final_url, a    *)
(* dealroom_id that is neither -1 nor -2, or a dealroom_uuid that is       *)
(* neither -1 nor -2.                                                      *)
(***************************************************************************)
C13_CreatedHasIdentity ==
    (last.called /\ last.out.result = CREATED)
        => (HasIdentity(last.out.written) /\ HasIdentity(docs[last.out.target]))

\* A resolver query of the call failed through the retry of stream, or while
\* its results were consumed.
LastQueryFailed ==
    /\ LastConcrete \/ extract(FinalUrlOf(last)).ok
    /\ (last.fault.c1 /\ last.fault.c2) \/ last.fault.it

\* The dedup adjustment of the call could not fetch a candidate.
LastFetchFailed ==
    /\ ~LastQueryFailed
    /\ LastConcrete
    /\ last.out.key_found = "final_url"
    /\ last.fault.get

\* Both attempts of the final write failed.
LastWriteFailed ==
    /\ last.out.op \in {"create", "update"}
    /\ last.fault.s1 \/ last.fault.u1
    /\ last.fault.s2 \/ last.fault.u2

(***************************************************************************)
(* C14.  A store failure that persists through the retry, in a resolver    *)
(* query, in the fetch of a candidate for the dedup adjustment or in the   *)
(* final write, makes set_history_doc_refs return ERROR; no exception      *)
(* leaves the call.                                                        *)
(***************************************************************************)
C14_StoreFailureIsError ==
    last.called =>
        /\ last.out.result \in {CREATED, UPDATED, ERROR}
        /\ (LastQueryFailed \/ LastFetchFailed \/ LastWriteFailed)
               => last.out.result = ERROR

\* Positions of the events of an operation in the call that returned.
EventsOf(op) == {n \in 1..Len(access.events) : access.events[n].op = op}

\* The events of the first attempt (before the sleep) and of the second.
FirstAttempt == {n \in 1..Len(access.events) : \A s \in EventsOf("sleep") : n < s}

SecondAttempt == {n \in 1..Len(access.events) : \E s \in EventsOf("sleep") : n > s}

\* The attempt was made and nothing it issued, or returned, failed.
Succeeded(attempt) ==
    attempt # {} /\ \A n \in attempt : access.events[n].ok

SuccessValue(fn) ==
    CASE fn = "get" -> "snapshot"
      [] fn = "stream" -> "generator"
      [] OTHER -> SUCCESS

(***************************************************************************)
(* C15.  get, set, update and stream attempt their store operation at most *)
(* twice in a call; the second attempt runs only after the first failed    *)
(* and after one sleep of EXCEPTION_SLEEP_TIME; the call returns its       *)
(* success value when an attempt succeeds and ERROR exactly when no        *)
(* attempt does, a query that fails while its results are consumed being a *)
(* failed attempt.                                                         *)
(***************************************************************************)
C15_RetryOnce ==
    access # NoAccess =>
        LET calls == EventsOf(access.fn)
            sleeps == EventsOf("sleep")
        IN  /\ Cardinality(calls) \in {1, 2}
            /\ Cardinality(calls) = 2
                   => /\ ~Succeeded(FirstAttempt)
                      /\ Cardinality(sleeps) = 1
                      /\ \A s \in sleeps :
                             /\ access.events[s].n = 5
                             /\ Cardinality({n \in calls : n < s}) = 1
                             /\ Cardinality({n \in calls : n > s}) = 1
            /\ Cardinality(calls) = 1 => sleeps = {}
            /\ access.result = ERROR
                   <=> (~Succeeded(FirstAttempt) /\ ~Succeeded(SecondAttempt))
            /\ access.result # ERROR => access.result = SuccessValue(access.fn)

\* The same for the functions that hand back no lazy result.
C15_RetryOnceEager == access.fn # "stream" => C15_RetryOnce

(***************************************************************************)
(* C16.  In set and update, last_edit is written to a document only right  *)
(* after the primary write of the same attempt succeeded, and only for a   *)
(* path of exactly two segments whose first is "history"; never for a      *)
(* people document or any other path, and never by get or stream.          *)
(***************************************************************************)
C16_LastEditOnlyAfterWrite ==
    access # NoAccess =>
        /\ \A n \in EventsOf("last_edit") :
               /\ access.fn \in {"set", "update"}
               /\ n > 1
               /\ access.events[n - 1].op = access.fn
               /\ access.events[n - 1].ok
               /\ Len(access.path) = 2
               /\ access.path[1] = "history"
        /\ access.after["last_edit"] # access.before["last_edit"]
               => \E n \in EventsOf("last_edit") : access.events[n].ok
        /\ access.path \in {<<"history", 1>>}
               \/ access.after["last_edit"] = access.before["last_edit"]

C16_Witness ==
    /\ access.fn = "update"
    /\ access.path = <<"history", 1>>
    /\ access.events = <<Event("update", TRUE), Event("last_edit", FALSE),
                         SleepEvent,
                         Event("update", TRUE), Event("last_edit", TRUE)>>
    /\ access.result = SUCCESS
    /\ access.after["last_edit"] = Now

(***************************************************************************)
(* C17.  A call whose payload holds an invalid dealroom_id (0, a           *)
(* non-numeric string, a UUID) or an invalid dealroom_uuid (0, a non-UUID  *)
(* string, a positive integer) returns ERROR whether the count selects the *)
(* CREATE or the UPDATE branch, and the collection, the matched document   *)
(* with it, is unchanged.                                                  *)
(***************************************************************************)
C17_InvalidIdentifierIsError ==
    ( /\ last.called
      /\ \/ last.payload["dealroom_id"] \in InvalidIds
         \/ last.payload["dealroom_uuid"] \in InvalidUuids )
    => /\ last.out.result = ERROR
       /\ last.out.res = ""
       /\ docs = last.pre

C17_Witness ==
    /\ last.called
    /\ last.payload["dealroom_uuid"] = IntV(1)
    /\ last.out.status = "ok"
    /\ last.out.count = 1
    /\ Exists(last.pre, UpdateTarget(last.out))
    /\ last.out.op = "invalid"
    /\ last.out.result = ERROR
    /\ docs = last.pre

\* The arguments set_history_doc_refs hands to get_history_doc_refs.
ResolverFinalUrl == FinalUrlOf(last)

ResolverIdentifier == LastIdentifier.value

(***************************************************************************)
(* C18.  get_history_doc_refs returns ERROR unless it is given a final_url *)
(* or an identifier that parses as an ID or a UUID; a result that is not   *)
(* an error has at least one entry.                                        *)
(***************************************************************************)
C18_ResolverNeedsKey ==
    last.called =>
        LET found == get_history_doc_refs(last.pre, ResolverFinalUrl,
                                          ResolverIdentifier, NoFault)
        IN  /\ ( /\ ~Truthy(ResolverFinalUrl)
                 /\ determine_identifier(ResolverIdentifier).tag # "ident" )
                   => found.status = ERROR
            /\ found.status = "ok" => found.keys # {}

(***************************************************************************)
(* C19.  A final_url that the normalizer rejects makes                     *)
(* get_history_doc_refs return ERROR, and makes set_history_doc_refs       *)
(* return ERROR and write nothing, whether the final_url is in the payload *)
(* or is the raw identifier argument.                                      *)
(***************************************************************************)
Rejected(v) == Truthy(v) /\ ~extract(v).ok

C19_RejectedUrlIsError ==
    last.called =>
        /\ Rejected(ResolverFinalUrl)
               => /\ get_history_doc_refs(last.pre, ResolverFinalUrl,
                                          ResolverIdentifier, NoFault).status = ERROR
                  /\ last.out.status = ERROR
        /\ ( \/ Rejected(DictGet(last.payload, "final_url"))
             \/ /\ determine_identifier(last.raw).tag = "invalid"
                /\ Rejected(last.raw) )
               => /\ last.out.result = ERROR
                  /\ last.out.res = ""
                  /\ docs = last.pre

C19_Witness ==
    /\ last.called
    /\ last.payload["final_url"] = StrV("bad")
    /\ last.raw = StrV("a.com")
    /\ last.out.status = "ok"
    /\ last.out.count = 1
    /\ last.out.result = ERROR
    /\ docs = last.pre

(***************************************************************************)
(* C20.  Starting from a fresh Batcher, queuing calls succeed as long as   *)
(* the writes they count (the extra last_edit write included) do not       *)
(* exceed 500; the first call that would exceed 500 fails with the         *)
(* over-limit error, and total_writes is 500 after that failed call.       *)
(***************************************************************************)
C20_FailedCallLeavesLimit ==
    batch.op \in BatcherOps =>
        /\ batch.prev <= MAX_WRITES_PER_BATCH =>
               ( batch.result = "ok" <=>
                     batch.total_writes <= MAX_WRITES_PER_BATCH )
        /\ ( /\ batch.result = "InvalidArgument"
             /\ batch.prev <= MAX_WRITES_PER_BATCH )
               => batch.total_writes = MAX_WRITES_PER_BATCH

(***************************************************************************)
(* C21.  A Batcher queuing call that fails with the over-limit error       *)
(* queues nothing: the batch holds the same writes before and after the    *)
(* failed call, for set, create, update and delete, set/update on a        *)
(* history document with the counter at 499 included.                      *)
(***************************************************************************)
C21_FailedCallQueuesNothing ==
    ( /\ batch.op \in BatcherOps
      /\ batch.result = "InvalidArgument" )
        => /\ batch.queued = batch.prev_queued
           /\ batch.write = NoWrite

(***************************************************************************)
(* C22.  After any sequence of set/create/update/delete and commit calls   *)
(* on one Batcher the in-flight batch never holds more than 500 writes,    *)
(* and no commit sends more than 500 writes.                               *)
(***************************************************************************)
C22_AtMostFiveHundredQueued ==
    /\ batch.queued <= MAX_WRITES_PER_BATCH
    /\ batch.op = "commit" => batch.prev_queued <= MAX_WRITES_PER_BATCH

C22_Witness ==
    /\ batch.op = "commit"
    /\ batch.refused
    /\ batch.prev > MAX_WRITES_PER_BATCH
    /\ batch.prev_queued = MAX_WRITES_PER_BATCH

(***************************************************************************)
(* C23.  After a commit that returns SUCCESS total_writes is 0, and the    *)
(* same instance accepts 500 further writes: every later queuing call      *)
(* that keeps the counted writes at or below 500 succeeds, also when       *)
(* earlier queuing calls of the instance had failed with the over-limit    *)
(* error.                                                                  *)
(***************************************************************************)
C23_ReusableAfterCommit ==
    /\ ( batch.op = "commit" /\ batch.result = SUCCESS )
           => batch.total_writes = 0 /\ batch.queued = 0
    /\ ( /\ batch.reused
         /\ batch.op \in BatcherOps
         /\ batch.total_writes <= MAX_WRITES_PER_BATCH )
           => /\ batch.result = "ok"
              /\ batch.queued = batch.total_writes

C23_Witness ==
    /\ batch.reused
    /\ batch.refused
    /\ batch.op \in BatcherOps
    /\ batch.result = "ok"
    /\ batch.total_writes = MAX_WRITES_PER_BATCH
    /\ batch.queued = MAX_WRITES_PER_BATCH

(***************************************************************************)
(* C24.  commit attempts the underlying commit at most twice, the second   *)
(* time only after the first attempt failed; it returns SUCCESS if an      *)
(* attempt succeeds and ERROR if both fail, and after ERROR the queued     *)
(* writes and total_writes are as they were before the call.               *)
(***************************************************************************)
C24_CommitRetriesOnce ==
    batch.op = "commit" =>
        LET attempts == batch.attempts
        IN  /\ Len(attempts) \in {1, 2}
            /\ Len(attempts) = 2 <=> ~attempts[1]
            /\ batch.result = SUCCESS
                   <=> \E n \in 1..Len(attempts) : attempts[n]
            /\ batch.result = ERROR
                   <=> ( Len(attempts) = 2 /\ ~attempts[1] /\ ~attempts[2] )
            /\ batch.result = ERROR
                   => /\ batch.queued = batch.prev_queued
                      /\ batch.total_writes = batch.prev

C24_Witness ==
    /\ batch.op = "commit"
    /\ batch.attempts = <<FALSE, FALSE>>
    /\ batch.result = ERROR
    /\ batch.queued = MAX_WRITES_PER_BATCH
    /\ batch.total_writes > MAX_WRITES_PER_BATCH

(***************************************************************************)
(* C25.  A set that is accepted queues its write with merge semantics,     *)
(* whatever merge argument the caller gave, and increases total_writes by  *)
(* 2 if and only if the path has two segments of which the first is        *)
(* "history", otherwise by 1; an accepted create or delete increases it    *)
(* by 1.                                                                   *)
(***************************************************************************)
C25_SetMergesAndCounts ==
    ( batch.op \in {"set", "create", "delete"} /\ batch.result = "ok" ) =>
        LET counted == batch.total_writes - batch.prev
            history == Len(batch.path) = 2 /\ batch.path[1] = "history"
        IN  /\ batch.op = "set"
                => /\ batch.write.op = "set"
                   /\ batch.write.path = batch.path
                   /\ <<"merge", TRUE>> \in batch.write.kwargs
                   /\ <<"merge", FALSE>> \notin batch.write.kwargs
                   /\ counted = IF history THEN 2 ELSE 1
                   /\ batch.queued - batch.prev_queued = counted
            /\ batch.op \in {"create", "delete"}
                => counted = 1

C25_Witness ==
    /\ batch.op = "set"
    /\ batch.result = "ok"
    /\ batch.path = <<"history", 1>>
    /\ batch.kwargs = {<<"merge", FALSE>>}
    /\ batch.total_writes = batch.prev + 2

(***************************************************************************)
(* The call of set_people_doc_ref that returned.                           *)
(***************************************************************************)
\* The documents the caller's query matches before the call; none when a
\* part of the query is falsy and no query is made.
PeopleMatches ==
    LET c == people.call
    IN  IF c.field_name # "" /\ c.operator # "" /\ Truthy(c.field_value)
        THEN QueryMatches(c.pre, c.field_name, c.operator, c.field_value)
        ELSE {}

\* Exactly one document was added, with the payload as its fields.
PeopleCreated ==
    LET c == people.call
    IN  \E ref \in DocIds :
            /\ ~Exists(c.pre, ref)
            /\ people.docs = [c.pre EXCEPT ![ref] = c.payload]
            /\ c.payload # EmptyDoc

\* The one matching document was merge-written, nothing else changed.
PeopleUpdated ==
    LET c == people.call
    IN  \E ref \in PeopleMatches :
            people.docs = [c.pre EXCEPT ![ref] = DictMerge(c.pre[ref], c.payload)]

\* The decision by the number of matches alone, for create and ambiguity.
PeopleCreateOrAmbiguous ==
    LET c == people.call
        n == Cardinality(PeopleMatches)
    IN  /\ ( n = 0 /\ _validate_new_people_doc_payload(c.payload) )
              => c.out.result = CREATED /\ PeopleCreated
        /\ ( n = 0 /\ ~_validate_new_people_doc_payload(c.payload) )
              => c.out.result = ERROR /\ people.docs = c.pre
        /\ n > 1 => c.out.result = ERROR /\ people.docs = c.pre

C27_PeopleFailureIsError ==
    people.call.called =>
        LET c == people.call
            queried == c.field_name # "" /\ c.operator # ""
                           /\ Truthy(c.field_value)
            invalid_id == /\ c.payload["dealroom_id"].k # "absent"
                          /\ ~_validate_dealroom_id(c.payload["dealroom_id"])
        IN  /\ ( queried /\ c.fault.c1 /\ c.fault.c2 )
                  => c.out.result = ERROR /\ people.docs = c.pre
            /\ ( invalid_id /\ ~c.fault.c1 /\ ~c.fault.it )
                  => c.out.result = ERROR /\ people.docs = c.pre

\* The same for the CREATE path alone, where the validation is caught.
C27_PeopleInvalidCreateIsError ==
    ( /\ people.call.called
      /\ people.call.payload["dealroom_id"].k # "absent"
      /\ ~_validate_dealroom_id(people.call.payload["dealroom_id"])
      /\ people.call.out.matching_docs = 0
      /\ people.call.out.op # "none" )
        => people.call.out.result = ERROR /\ people.docs = people.call.pre

(***************************************************************************)
(* The round trip: the resolver asked for the raw identifier of the call   *)
(* that returned, on the collection as the call left it.                   *)
(***************************************************************************)
LastResolvedAgain == get_history_doc_refs(docs, NoneV, last.raw, NoFault)

\* The resolver returns exactly one document in the identifier's primary
\* list, and the document holds the payload handed to set, and last_edit.
LastRoundTrip ==
    LET found == LastResolvedAgain
        primary == found.refs[LastIdentifier.field_name]
    IN  /\ found.status = "ok"
        /\ Len(primary) = 1
        /\ primary[1] = last.out.target
        /\ docs[primary[1]] = [last.out.written EXCEPT !["last_edit"] = Now]

\* The payload leaves the identifier's field to the raw identifier, or
\* gives the same value.
PayloadAgreesWithIdentifier ==
    LET field == LastIdentifier.field_name
    IN  \/ last.payload[field].k = "absent"
        \/ determine_identifier(last.payload[field]) = LastIdentifier

C29_UpdateTouchesPayloadFieldsOnly ==
    ( last.called /\ last.out.result = UPDATED ) =>
        LET target == last.out.target
            before == last.pre[target]
            after == docs[target]
        IN  /\ Exists(last.pre, target)
            /\ target \in Range(last.out.refs[last.out.key_found])
            /\ OnlyChanged(last.pre, docs, target)
            /\ Existing(docs) = Existing(last.pre)
            /\ \A field \in Fields \ {"last_edit"} :
                   after[field] = IF last.payload[field].k = "absent"
                                  THEN before[field]
                                  ELSE PayloadValue(field)
            /\ after["last_edit"] = Now

\* A document in progress is updated by its final_url under a concrete raw
\* identifier that the payload does not carry: dealroom_id stays -1.
C29_Witness ==
    /\ LastConcrete
    /\ last.out.result = UPDATED
    /\ last.out.key_found = "final_url"
    /\ last.payload["dealroom_id"].k = "absent"
    /\ last.pre[last.out.target]["dealroom_id"] = IntV(NOT_IN_DB)
    /\ docs[last.out.target]["dealroom_id"] = IntV(NOT_IN_DB)
    /\ Cardinality(Existing(last.pre)) = 2

(***************************************************************************)
(* C30.  A document matched only by final_url that holds a concrete        *)
(* dealroom_id or dealroom_uuid never has it replaced by another concrete  *)
(* value: the stored identifier changes only to a sentinel (-1, -2) the    *)
(* caller set.                                                             *)
(***************************************************************************)
C30_ConcreteIdentifierKept ==
    ( last.called /\ last.out.status = "ok"
                  /\ last.out.key_found = "final_url" ) =>
        \A ref \in Range(LastUrlList) :
            \A field \in {"dealroom_id", "dealroom_uuid"} :
                ( /\ IsConcrete(last.pre[ref][field])
                  /\ docs[ref][field] # last.pre[ref][field] )
                    => docs[ref][field] \in {IntV(NOT_IN_DB), IntV(DELETED)}

\* The call added exactly one document and changed no other.
AddedOneDoc ==
    \E ref \in DOMAIN docs :
        /\ ~Exists(last.pre, ref)
        /\ Exists(docs, ref)
        /\ \A other \in DOMAIN docs \ {ref} : docs[other] = last.pre[other]

(***************************************************************************)
(* The candidates of the dedup adjustment of the call that returned.       *)
(***************************************************************************)
\* Candidates whose primary identifier field is DELETED.
LastDeletedCandidates ==
    {ref \in Range(LastUrlList) :
        DictGet(last.pre[ref], LastIdentifier.field_name) = IntV(DELETED)}

\* Candidates whose primary identifier field is NOT_IN_DB.
LastInProgressCandidates ==
    {ref \in Range(LastUrlList) :
        DictGet(last.pre[ref], LastIdentifier.field_name) = IntV(NOT_IN_DB)}

\* Deleted candidates whose _old field is the supplied identifier.
LastExemptCandidates ==
    {ref \in LastDeletedCandidates :
        DictGet(last.pre[ref], LastIdentifier.field_name_old)
            = LastIdentifier.value}

(***************************************************************************)
(* C31.  The dedup adjustment can mask an ambiguity.  Every deleted        *)
(* candidate is decremented by both checks, so the adjusted count is the   *)
(* number of in-progress candidates less the number of deleted candidates  *)
(* (without the _old exemption), and a count <= 0 leads to CREATED however *)
(* many candidates are in progress.  The witness is the reachable state    *)
(* the statement names: two candidates in progress, deleted candidates,    *)
(* count <= 0 and CREATED.                                                 *)
(***************************************************************************)
C31_DedupCountsDeletedTwice ==
    LastDedup =>
        /\ last.out.count =
               Cardinality(LastInProgressCandidates)
                 - Cardinality(LastDeletedCandidates \ LastExemptCandidates)
        /\ ( last.out.count <= 0 /\ LastCreateGoesThrough )
               => /\ last.out.result = CREATED
                  /\ AddedOneDoc

C31_Witness ==
    /\ LastDedup
    /\ Cardinality(LastInProgressCandidates) >= 2
    /\ LastDeletedCandidates # {}
    /\ last.out.count <= 0
    /\ last.out.result = CREATED
    /\ AddedOneDoc

\* The primary writes of the returned set or update call that took effect.
AccessPrimaryWrites ==
    {n \in 1..Len(access.events) :
        access.events[n].op = access.fn /\ access.events[n].ok}

\* The returned call went on to its second attempt.
AccessRetried ==
    \E n \in 1..Len(access.events) : access.events[n] = SleepEvent

(***************************************************************************)
(* C32.  Within one set or update call the primary write takes effect at   *)
(* most once: the second attempt runs only when the primary write of the   *)
(* first attempt failed, and a call that returns ERROR has left the        *)
(* document as it was.                                                     *)
(***************************************************************************)
C32_PrimaryWriteAtMostOnce ==
    access.fn \in {"set", "update"} =>
        /\ Cardinality(AccessPrimaryWrites) <= 1
        /\ AccessRetried => ~access.events[1].ok
        /\ access.result = ERROR => access.after = access.before

\* payload.get("final_url") or "" of the applied call.
AppliedPayloadUrl == PyOr(DictGet(applied.payload, "final_url"), StrV(""))

\* The raw identifier of the applied call parses as an ID or as a UUID.
AppliedParses == is_valid_id(applied.value) \/ is_valid_uuid(applied.value)

(***************************************************************************)
(* C33.  _get_final_url_and_dealroom_id returns (payload.final_url or "",  *)
(* -1) when the raw identifier is absent, whatever dealroom_id and         *)
(* dealroom_uuid the payload holds; (payload.final_url or "", the          *)
(* DealroomIdentifier of the raw identifier) when it parses as an ID or a  *)
(* UUID; and (raw, -1) when it does not parse, whatever final_url the      *)
(* payload holds.                                                          *)
(***************************************************************************)
C33_FinalUrlAndDealroomId ==
    applied.fn = "_get_final_url_and_dealroom_id" =>
        IF ~Truthy(applied.value)
        THEN /\ applied.result.final_url = AppliedPayloadUrl
             /\ applied.result.dealroom_id = PlainNotInDb
        ELSE IF AppliedParses
        THEN /\ applied.result.final_url = AppliedPayloadUrl
             /\ applied.result.dealroom_id.tag = "ident"
             /\ applied.result.dealroom_id.value =
                    (IF applied.value.k = "str" /\ applied.value.s \in NumericStrings
                     THEN IntV(PyIntOfStr(applied.value.s))
                     ELSE applied.value)
             /\ applied.result.dealroom_id.field_name =
                    (IF is_valid_id(applied.value) THEN "dealroom_id"
                                                   ELSE "dealroom_uuid")
        ELSE /\ applied.result.final_url = applied.value
             /\ applied.result.dealroom_id = PlainNotInDb

\* A raw identifier that does not parse is returned as the final_url although
\* the payload holds another final_url and identifiers.
C33_Witness ==
    /\ applied.fn = "_get_final_url_and_dealroom_id"
    /\ applied.value = StrV("bad")
    /\ applied.payload["final_url"] = StrV("a.com")
    /\ applied.payload["dealroom_id"] = IntV(2)
    /\ applied.result.final_url = StrV("bad")
    /\ applied.result.dealroom_id = PlainNotInDb

\* The fields get_history_doc_refs queries for the arguments of the applied
\* call: the identifier's primary and _old field, and the two url fields.
ResolveFields ==
    (IF is_valid_id(applied.value) THEN {"dealroom_id", "dealroom_id_old"}
     ELSE IF is_valid_uuid(applied.value)
     THEN {"dealroom_uuid", "dealroom_uuid_old"}
     ELSE {})
    \cup (IF Truthy(applied.final_url)
          THEN {"final_url", "current_related_urls"} ELSE {})

\* The canonical form of the url of the applied call.
ResolveUrl == IF applied.final_url = StrV("www.a.com") THEN "a.com"
              ELSE applied.final_url.s

\* The identifier value of the applied call as the documents store it.
ResolveValue == IF applied.value = StrV("1") THEN IntV(1) ELSE applied.value

\* The document at ref satisfies the condition queried on key.
ResolveHolds(ref, key) ==
    /\ docs[ref] # EmptyDoc
    /\ CASE key = "final_url" -> docs[ref][key] = StrV(ResolveUrl)
         [] key = "current_related_urls" ->
                docs[ref][key].k = "list" /\ ResolveUrl \in docs[ref][key].l
         [] OTHER -> docs[ref][key] = ResolveValue

(***************************************************************************)
(* C34.  get_history_doc_refs returns a map with exactly the keys of the   *)
(* fields queried (the primary and the _old field of a valid identifier,   *)
(* final_url and current_related_urls for a final_url, queried on the      *)
(* normalized url); each list holds, once each, exactly the references of  *)
(* the documents that satisfy the condition; the collection is unchanged.  *)
(***************************************************************************)
C34_ResolverMap ==
    ( applied.fn = "get_history_doc_refs" /\ applied.result.status = "ok" ) =>
        /\ applied.result.keys = ResolveFields
        /\ \A key \in ResolveFields :
              /\ Range(applied.result.refs[key])
                    = {ref \in DocIds : ResolveHolds(ref, key)}
              /\ Len(applied.result.refs[key])
                    = Cardinality(Range(applied.result.refs[key]))
        /\ docs = applied.pre

\* A non-canonical url and an identifier are resolved: four keys, with a
\* document under final_url and another under the identifier's _old field.
C34_Witness ==
    /\ applied.fn = "get_history_doc_refs"
    /\ applied.result.status = "ok"
    /\ applied.final_url = StrV("www.a.com")
    /\ applied.result.keys = {"dealroom_id", "dealroom_id_old", "final_url",
                              "current_related_urls"}
    /\ applied.result.refs["final_url"] # <<>>
    /\ applied.result.refs["dealroom_id_old"] # <<>>
    /\ applied.result.refs["current_related_urls"] # <<>>

\* str(n)
PyStr(n) ==
    CASE n = -3 -> "-3"
      [] n = -2 -> "-2"
      [] n = -1 -> "-1"
      [] n = 0 -> "0"
      [] n = 1 -> "1"
      [] n = 2 -> "2"
      [] OTHER -> "other"

(***************************************************************************)
(* C35.  The ID validator accepts every positive integer and its decimal   *)
(* string, accepts -1 and -2 as int or string, and rejects 0 and every     *)
(* n < -2 in both forms.  The UUID validator accepts every UUID string and *)
(* -1 and -2 as int or string, and rejects every string that is neither a  *)
(* numeric sentinel nor a UUID.                                            *)
(***************************************************************************)
C35_Validators ==
    /\ applied.fn = "_validate_dealroom_id" =>
          \A n \in MinInt..MaxInt :
              applied.value \in {IntV(n), StrV(PyStr(n))} =>
                  ( applied.result <=> (n > 0 \/ n \in {DELETED, NOT_IN_DB}) )
    /\ applied.fn = "_validate_dealroom_uuid" =>
          /\ \A n \in {DELETED, NOT_IN_DB} :
                applied.value \in {IntV(n), StrV(PyStr(n))} => applied.result
          /\ applied.value.k = "str" =>
                ( applied.result <=>
                     applied.value.s \in UUIDStrings \cup {"-1", "-2"} )

\* The ID validator has rejected the string "0".
C35_Witness ==
    /\ applied.fn = "_validate_dealroom_id"
    /\ applied.value = StrV("0")
    /\ applied.result = FALSE

\* The applied argument is the positive integer n or its digit string.
AppliedIsPositive(n) ==
    n > 0 /\ applied.value \in {IntV(n), StrV(PyStr(n))}

(***************************************************************************)
(* C36.  determine_identifier returns no identifier, without an error, for *)
(* every falsy input; a numeric DealroomIdentifier with field dealroom_id  *)
(* for every positive integer and for the digit string of one; a UUID      *)
(* DealroomIdentifier with field dealroom_uuid for every UUID string; and  *)
(* raises InvalidIdentifier for every other input, the sentinels -1 and -2 *)
(* included.                                                               *)
(***************************************************************************)
C36_DetermineIdentifier ==
    applied.fn = "determine_identifier" =>
        IF applied.value \in {StrV(""), NoneV, IntV(0)}
        THEN applied.result.tag = "none"
        ELSE IF \E n \in MinInt..MaxInt : AppliedIsPositive(n)
        THEN \A n \in MinInt..MaxInt :
                 AppliedIsPositive(n) =>
                     /\ applied.result.tag = "ident"
                     /\ applied.result.value = IntV(n)
                     /\ applied.result.field_name = "dealroom_id"
                     /\ applied.result.field_name_old = "dealroom_id_old"
        ELSE IF applied.value.k = "str" /\ applied.value.s \in UUIDStrings
        THEN /\ applied.result.tag = "ident"
             /\ applied.result.value = applied.value
             /\ applied.result.field_name = "dealroom_uuid"
             /\ applied.result.field_name_old = "dealroom_uuid_old"
        ELSE applied.result.tag = "invalid"

\* The sentinel -2 has raised InvalidIdentifier.
C36_Witness ==
    /\ applied.fn = "determine_identifier"
    /\ applied.value = IntV(DELETED)
    /\ applied.result.tag = "invalid"

\* The pages a paged fetch of the whole query makes: pages of page_size,
\* each after the last document of the one before, up to and including the
\* first page shorter than page_size.
ExpectedPages ==
    [k \in 1..(Len(paging.all) \div paging.page_size + 1) |->
        [start_at |-> IF k = 1 THEN 0
                      ELSE paging.all[(k - 1) * paging.page_size],
         docs |-> SubSeq(paging.all, (k - 1) * paging.page_size + 1,
                         Min(k * paging.page_size, Len(paging.all)))]]

\* stream returned ERROR for one of the pages of the call.
PagingStreamFailed == paging.fail_at \in 1..Len(ExpectedPages)

PagingReturnedRight ==
    paging.pc = "done" =>
        IF PagingStreamFailed THEN paging.result = ERROR
        ELSE /\ paging.result = "list"
             /\ paging.returned = paging.all
             /\ paging.pages = ExpectedPages

(***************************************************************************)
(* C37.  get_all terminates for every finite query result and every        *)
(* page_size >= 1, and returns every document exactly once in query order: *)
(* it fetches pages of page_size, each starting after the last document of *)
(* the page before, and stops after the first page shorter than page_size; *)
(* when stream returns ERROR for a page, get_all returns ERROR.            *)
(***************************************************************************)
C37_GetAllTerminates ==
    /\ [] PagingReturnedRight
    /\ (paging.pc = "_get_all") ~> (paging.pc = "done")

\* A query whose length is a multiple of page_size, not in id order, has
\* been fetched in three pages, the last one empty.
C37_Witness ==
    /\ paging.pc = "done"
    /\ paging.result = "list"
    /\ paging.all = <<3, 1, 4, 2>>
    /\ paging.page_size = 2
    /\ Len(paging.pages) = 3
    /\ paging.pages[3].docs = <<>>
    /\ paging.returned = paging.all

\* Both threads have returned from their call.
ThreadsDone == \A t \in Threads : threads.th[t].pc \in {"queued", "raised"}

\* Both threads read the same value of the counter.
ThreadsReadSame == \A t, u \in Threads : threads.th[t].read = threads.th[u].read

ThreadsNoneRaised == \A t \in Threads : threads.th[t].pc = "queued"

(***************************************************************************)
(* C38.  When two threads share one Batcher without synchronization, the   *)
(* read and the write-back of the counter can interleave: when both        *)
(* threads have read the same value one increment is lost, total_writes is *)
(* then smaller than the number of writes queued (which happens in no      *)
(* other way), and a 501st write can be queued (never a 502nd).            *)
(***************************************************************************)
C38_LostIncrement ==
    ThreadsDone =>
        /\ ThreadsReadSame =>
               threads.total_writes = threads.th[1].read + 1
        /\ (threads.total_writes < threads.queued)
               <=> (ThreadsReadSame /\ ThreadsNoneRaised)
        /\ threads.queued > MAX_WRITES_PER_BATCH =>
               /\ threads.total_writes < threads.queued
               /\ threads.queued = MAX_WRITES_PER_BATCH + 1

\* An increment was lost and 501 writes are queued with the counter at 500.
C38_Witness ==
    /\ ThreadsDone
    /\ ThreadsReadSame
    /\ threads.total_writes = MAX_WRITES_PER_BATCH
    /\ threads.queued = MAX_WRITES_PER_BATCH + 1

\* Documents whose _old field holds the identifier supplied to the call.
LastOldHolders ==
    {ref \in DocIds :
        DictGet(last.pre[ref], LastIdentifier.field_name_old)
            = LastIdentifier.value}

(***************************************************************************)
(* C39.  In sequential execution, whenever the dedup adjustment runs (the  *)
(* winning key is final_url and the identifier is concrete), no document   *)
(* has its _old field equal to the supplied identifier value: the _old     *)
(* exemption of check_for_deleted_profiles never applies, and every        *)
(* candidate whose primary field is DELETED is decremented.                *)
(***************************************************************************)
C39_OldExemptionNeverApplies ==
    LastDedup =>
        /\ LastOldHolders = {}
        /\ check_for_deleted_profiles(last.pre, LastUrlList, LastIdentifier,
                                      Len(LastUrlList))
               = Len(LastUrlList) - Cardinality(LastDeletedCandidates)

\* The adjustment ran on a deleted candidate that keeps another identifier
\* in its _old field, and decremented it.
C39_Witness ==
    /\ LastDedup
    /\ LastIdentifier.value = IntV(1)
    /\ \E ref \in LastDeletedCandidates :
           last.pre[ref]["dealroom_id_old"] = IntV(2)
    /\ check_for_deleted_profiles(last.pre, LastUrlList, LastIdentifier,
                                  Len(LastUrlList)) < Len(LastUrlList)


====
